---- MODULE Spec2Model ----
(***************************************************************************)
(* contact-relay: the POST /send admission pipeline (sendHandler), the     *)
(* sliding-window rate limiter, the idempotency guard and the Telegram     *)
(* delivery service with supergroup-migration handling.                    *)
(*                                                                         *)
(* Time is in milliseconds.  Strings that the code inspects character by   *)
(* character (trim) are sequences of one-character strings; all other      *)
(* strings are TLA+ strings.                                               *)
(***************************************************************************)
EXTENDS Integers, Sequences, FiniteSets, TLC

VARIABLES
    now,        \* Date.now(), ms
    rateKV,     \* env.RATE_LIMIT : key -> NoEntry | [val, exp]
    idemKV,     \* env.IDEMPOTENCY: key -> NoEntry | [val, exp]
    configKV,   \* env.CONFIG, the migrated_chat:<id> keys
    dv,         \* one running sendTelegramMessage call (delivery specification)
    rl,         \* observed isRateLimited calls (rate-limiter specification)
    idm,        \* observed isDuplicate calls (idempotency specification)
    env,        \* the Worker's bindings (Env), fixed for a run
    req,        \* the POST /send requests: request number -> its handler's state
    pending,    \* migration-cache writes handed to waitUntil and not yet done
    tg,         \* the Bot API: which chats were upgraded, which messages it took
    pl,         \* counters of the pipeline specification
    fn          \* the latest call of a function on its own (function specification)

vars == <<now, rateKV, idemKV, configKV, dv, rl, idm, env, req, pending, tg, pl, fn>>

----------------------------------------------------------------------------
(* JavaScript values *)

\* undefined / null (a missing field, a KV miss)
Undefined == "<undefined>"

\* JS truthiness of a string-or-undefined value
Truthy(s) == s # Undefined /\ s # ""

----------------------------------------------------------------------------
(* Strings the code inspects: sequences of one-character strings *)

RECURSIVE Flat(_)
\* the string a character sequence spells
Flat(s) == IF s = <<>> THEN "" ELSE Head(s) \o Flat(Tail(s))

\* String.prototype.trim: white space
IsSpace(c) == c \in {" ", "\t", "\n"}

RECURSIVE TrimStart(_)
TrimStart(s) == IF s # <<>> /\ IsSpace(Head(s)) THEN TrimStart(Tail(s)) ELSE s

RECURSIVE TrimEnd(_)
TrimEnd(s) ==
    IF s # <<>> /\ IsSpace(s[Len(s)]) THEN TrimEnd(SubSeq(s, 1, Len(s) - 1)) ELSE s

Trim(s) == TrimEnd(TrimStart(s))

\* s.slice(0, n)
Slice0(s, n) == SubSeq(s, 1, IF Len(s) < n THEN Len(s) ELSE n)

\* toLowerCase, on the letters the model uses
LowerChar(c) ==
    CASE c = "A" -> "a" [] c = "E" -> "e" [] c = "H" -> "h" [] c = "M" -> "m"
      [] c = "P" -> "p" [] c = "S" -> "s" [] c = "T" -> "t" [] c = "W" -> "w"
      [] c = "B" -> "b" [] c = "C" -> "c" [] c = "L" -> "l" [] c = "O" -> "o"
      [] c = "X" -> "x"
      [] OTHER -> c
ToLowerCase(s) == [i \in 1..Len(s) |-> LowerChar(s[i])]

\* s.startsWith(prefix)
StartsWith(s, prefix) ==
    Len(s) >= Len(prefix) /\ SubSeq(s, 1, Len(prefix)) = prefix

\* value of a decimal digit, -1 for any other character
DigitValue(c) ==
    CASE c = "0" -> 0 [] c = "1" -> 1 [] c = "2" -> 2 [] c = "3" -> 3 [] c = "4" -> 4
      [] c = "5" -> 5 [] c = "6" -> 6 [] c = "7" -> 7 [] c = "8" -> 8 [] c = "9" -> 9
      [] OTHER -> -1

RECURSIVE LeadingDigits(_, _, _)
\* the number spelled by the leading digits of s: [n: how many digits, val]
LeadingDigits(s, n, acc) ==
    IF s # <<>> /\ DigitValue(Head(s)) >= 0
      THEN LeadingDigits(Tail(s), n + 1, acc * 10 + DigitValue(Head(s)))
      ELSE [n |-> n, val |-> acc]

\* parseInt(s, 10): leading white space, an optional sign, then digits up to
\* the first other character; NaN when there is no digit
ParseInt(s) ==
    LET t    == TrimStart(s)
        neg  == t # <<>> /\ Head(t) = "-"
        body == IF t # <<>> /\ Head(t) \in {"-", "+"} THEN Tail(t) ELSE t
        d    == LeadingDigits(body, 0, 0)
    IN  IF d.n = 0 THEN [nan |-> TRUE, val |-> 0]
        ELSE [nan |-> FALSE, val |-> IF neg THEN 0 - d.val ELSE d.val]

DigitChar(n) ==
    CASE n = 0 -> "0" [] n = 1 -> "1" [] n = 2 -> "2" [] n = 3 -> "3" [] n = 4 -> "4"
      [] n = 5 -> "5" [] n = 6 -> "6" [] n = 7 -> "7" [] n = 8 -> "8" [] OTHER -> "9"

RECURSIVE NatChars(_)
NatChars(n) == IF n < 10 THEN <<DigitChar(n)>> ELSE Append(NatChars(n \div 10), DigitChar(n % 10))

\* String(n) of an integer, as the client writes its ts field
IntChars(n) == IF n < 0 THEN <<"-">> \o NatChars(0 - n) ELSE NatChars(n)

----------------------------------------------------------------------------
(* Workers KV: a key holds a value until its expiration time.  The         *)
(* expiration time is kept as whole seconds plus milliseconds, so that a   *)
(* TTL of a year needs no number beyond 32 bits.                            *)

EmptyKV == [k \in {} |-> [val |-> "", exp |-> [s |-> 0, ms |-> 0]]]

\* kv.put(key, value, { expirationTtl: ttlSeconds }) at time t
KvPut(kv, key, value, ttlSeconds, t) ==
    [k \in DOMAIN kv \cup {key} |->
        IF k = key
          THEN [val |-> value, exp |-> [s |-> (t \div 1000) + ttlSeconds, ms |-> t % 1000]]
          ELSE kv[k]]

\* kv.put(key, value) without expirationTtl: the key stays
KvPutForever(kv, key, value) ==
    [k \in DOMAIN kv \cup {key} |->
        IF k = key THEN [val |-> value, exp |-> [s |-> 2000000000, ms |-> 0]]
        ELSE kv[k]]

\* whether kv.get(key) at time t finds a value: written and not yet expired
KvLive(kv, key, t) ==
    /\ key \in DOMAIN kv
    /\ \/ (t \div 1000) < kv[key].exp.s
       \/ (t \div 1000) = kv[key].exp.s /\ (t % 1000) < kv[key].exp.ms

\* kv.get(key) of a store of strings: null when missing or expired
KvGet(kv, key, t) == IF KvLive(kv, key, t) THEN kv[key].val ELSE Undefined

----------------------------------------------------------------------------
(* utils/origin.ts *)

\* An Origin header as new URL(origin) sees it: valid is FALSE when the
\* header is missing or new URL throws, hostname is url.hostname
NoOrigin == [valid |-> FALSE, hostname |-> <<>>]
OriginOf(hostname) == [valid |-> TRUE, hostname |-> hostname]

WwwDot == <<"w", "w", "w", ".">>

\* normalizeHost(origin)
normalizeHost(origin) ==
    IF ~origin.valid THEN <<>>
    ELSE LET host == ToLowerCase(origin.hostname)
         IN  IF StartsWith(host, WwwDot) THEN SubSeq(host, 5, Len(host)) ELSE host

RECURSIVE RegexTestDotAny(_, _)
\* mutant: the dot of the pattern is not escaped and stands for any character
RegexTestDotAny(host, pattern) ==
    IF pattern = <<>> THEN host = <<>>
    ELSE IF Head(pattern) = "*"
      THEN RegexTestDotAny(host, Tail(pattern))
           \/ (host # <<>> /\ RegexTestDotAny(Tail(host), pattern))
    ELSE /\ host # <<>>
         /\ (Head(pattern) = "." \/ LowerChar(Head(host)) = LowerChar(Head(pattern)))
         /\ RegexTestDotAny(Tail(host), Tail(pattern))

RECURSIVE RegexTest(_, _)
\* new RegExp(`^${escaped}$`, "i").test(host): every pattern character is a
\* literal, compared without case, except * which stands for .*
RegexTest(host, pattern) ==
    IF pattern = <<>> THEN host = <<>>
    ELSE IF Head(pattern) = "*"
      THEN RegexTest(host, Tail(pattern))
           \/ (host # <<>> /\ RegexTest(Tail(host), pattern))
    ELSE /\ host # <<>>
         /\ LowerChar(Head(host)) = LowerChar(Head(pattern))
         /\ RegexTest(Tail(host), Tail(pattern))

\* matchPattern(host, pattern)
matchPattern(host, pattern) ==
    IF pattern = <<"*">> THEN TRUE ELSE RegexTest(host, pattern)

\* mutant: an empty list matches nothing
matchOriginSome(host, allowedOrigins) ==
    \E i \in 1..Len(allowedOrigins) : matchPattern(host, allowedOrigins[i])

\* matchOrigin(host, allowedOrigins)
matchOrigin(host, allowedOrigins) ==
    IF Len(allowedOrigins) = 0 THEN TRUE
    ELSE \E i \in 1..Len(allowedOrigins) : matchPattern(host, allowedOrigins[i])

\* parseAllowedOrigins(envValue); envValue is given as the pieces that
\* split(",") yields, <<>> for an unset or empty variable
parseAllowedOrigins(envValue) ==
    SelectSeq([i \in 1..Len(envValue) |-> ToLowerCase(Trim(envValue[i]))],
              LAMBDA x : Len(x) > 0)

RECURSIVE Dedup(_, _)
\* Array.from(new Set(items)): first occurrences, in order
Dedup(items, seen) ==
    IF items = <<>> THEN <<>>
    ELSE IF Head(items) \in seen THEN Dedup(Tail(items), seen)
    ELSE <<Head(items)>> \o Dedup(Tail(items), seen \cup {Head(items)})

OriginsKey == "allowed_origins"

\* mutant: a stored document replaces the static patterns, empty or not
getAllowedOriginsStoredWins(configKv, envValue, t) ==
    LET envOrigins == parseAllowedOrigins(envValue)
    IN  IF ~KvLive(configKv, OriginsKey, t) THEN envOrigins
        ELSE LET config == configKv[OriginsKey].val
             IN  IF ~config.corrupt THEN config.patterns ELSE envOrigins

\* mutant: the static patterns are dropped when there are dynamic ones
getAllowedOriginsDynamicOnly(configKv, envValue, t) ==
    LET envOrigins == parseAllowedOrigins(envValue)
    IN  IF ~KvLive(configKv, OriginsKey, t) THEN envOrigins
        ELSE LET config == configKv[OriginsKey].val
             IN  IF ~config.corrupt /\ Len(config.patterns) > 0
                   THEN config.patterns
                   ELSE envOrigins

\* getAllowedOrigins(configKv, envValue); the stored document is
\* [corrupt, patterns]: corrupt when JSON.parse throws or patterns is no array
getAllowedOrigins(configKv, envValue, t) ==
    LET envOrigins == parseAllowedOrigins(envValue)
    IN  IF ~KvLive(configKv, OriginsKey, t) THEN envOrigins
        ELSE LET config == configKv[OriginsKey].val
             IN  IF ~config.corrupt /\ Len(config.patterns) > 0
                   THEN Dedup(config.patterns \o envOrigins, {})
                   ELSE envOrigins

----------------------------------------------------------------------------
(* utils/sanitize.ts *)

HttpsTme == <<"h", "t", "t", "p", "s", ":", "/", "/", "t", ".", "m", "e", "/">>
HttpTme  == <<"h", "t", "t", "p", ":", "/", "/", "t", ".", "m", "e", "/">>

RECURSIVE RemoveTme(_)
\* .replace(/https?:\/\/t\.me\//gi, "")
RemoveTme(s) ==
    IF s = <<>> THEN <<>>
    ELSE IF StartsWith(ToLowerCase(s), HttpsTme)
      THEN RemoveTme(SubSeq(s, Len(HttpsTme) + 1, Len(s)))
    ELSE IF StartsWith(ToLowerCase(s), HttpTme)
      THEN RemoveTme(SubSeq(s, Len(HttpTme) + 1, Len(s)))
    ELSE <<Head(s)>> \o RemoveTme(Tail(s))

RECURSIVE StripSlashes(_)
\* .replace(/\/+$/, "")
StripSlashes(s) ==
    IF s # <<>> /\ s[Len(s)] = "/" THEN StripSlashes(SubSeq(s, 1, Len(s) - 1)) ELSE s

\* sanitizeTelegram(username)
sanitizeTelegram(username) ==
    StripSlashes(RemoveTme(SelectSeq(Trim(username), LAMBDA c : c # "@")))

\* trimLimit(value, maxLen); a missing value is <<>>
trimLimit(value, maxLen) == Slice0(Trim(value), maxLen)

RECURSIVE ReplaceAll(_, _, _)
\* text.replace(/ch/g, entity)
ReplaceAll(text, ch, entity) ==
    IF text = <<>> THEN <<>>
    ELSE (IF Head(text) = ch THEN entity ELSE <<Head(text)>>)
         \o ReplaceAll(Tail(text), ch, entity)

AmpEntity == <<"&", "a", "m", "p", ";">>
LtEntity == <<"&", "l", "t", ";">>
GtEntity == <<"&", "g", "t", ";">>

\* mutant: the ampersand is replaced last, so the entities just written are
\* escaped again
escapeHtmlAmpLast(text) ==
    Flat(ReplaceAll(ReplaceAll(ReplaceAll(text, "<", LtEntity), ">", GtEntity),
                    "&", AmpEntity))

\* escapeHtml(text): three passes, the ampersand first
escapeHtml(text) ==
    Flat(ReplaceAll(ReplaceAll(ReplaceAll(text, "&", AmpEntity), "<", LtEntity),
                    ">", GtEntity))

\* x || "-"
OrDash(x) == IF x = "" THEN "-" ELSE x

\* the lines buildMessageText collects
MessageLines(name, email, telegram, message, originHost) ==
    << "<b>New Contact Request</b>",
       "<b>Origin:</b> " \o OrDash(Flat(originHost)),
       "<b>Name:</b> " \o OrDash(escapeHtml(name)),
       "<b>Email:</b> " \o OrDash(escapeHtml(email)) >>
    \o (IF telegram # <<>>
          THEN << "<b>Telegram:</b> https://t.me/" \o escapeHtml(telegram) >> ELSE <<>>)
    \o (IF message # <<>>
          THEN << "<b>Message:</b>", escapeHtml(message) >> ELSE <<>>)

RECURSIVE JoinLines(_)
\* lines.join("\n")
JoinLines(lines) ==
    IF lines = <<>> THEN ""
    ELSE IF Len(lines) = 1 THEN lines[1]
    ELSE lines[1] \o "\n" \o JoinLines(Tail(lines))

\* buildMessageText(name, email, telegram, message, originHost)
buildMessageText(name, email, telegram, message, originHost) ==
    JoinLines(MessageLines(name, email, telegram, message, originHost))

----------------------------------------------------------------------------
(* services/telegram.ts: sendTelegramMessage *)

MAX_RETRIES == 3

\* migrate_to_chat_id values the Bot API can report (0: field absent)
NumChatIds == {-1001, -1002, -1003}

\* String(newChatId): decimal rendering of the numeric identifier
String(n) ==
    CASE n = -1001 -> "-1001"
      [] n = -1002 -> "-1002"
      [] n = -1003 -> "-1003"
      [] OTHER     -> "0"

ChatIds == {String(n) : n \in NumChatIds}

\* `HTTP ${response.status}`
HttpText(status) ==
    CASE status = 400 -> "HTTP 400"
      [] status = 429 -> "HTTP 429"
      [] OTHER        -> "HTTP 500"

\* What one fetch + response.json() can produce
RespOk == [thrown |-> FALSE, ok |-> TRUE, description |-> "", status |-> 200,
           migrate_to_chat_id |-> 0, message |-> ""]
RespFail(desc, status) ==
    [thrown |-> FALSE, ok |-> FALSE, description |-> desc, status |-> status,
     migrate_to_chat_id |-> 0, message |-> ""]
RespMigrate(n) ==
    [thrown |-> FALSE, ok |-> FALSE,
     description |-> "Bad Request: group chat was upgraded to a supergroup chat",
     status |-> 400, migrate_to_chat_id |-> n, message |-> ""]
RespThrow(msg) ==
    [thrown |-> TRUE, ok |-> FALSE, description |-> "", status |-> 0,
     migrate_to_chat_id |-> 0, message |-> msg]

IsMigration(r) == ~r.thrown /\ ~r.ok /\ r.migrate_to_chat_id # 0
IsFailure(r)   == ~(~r.thrown /\ r.ok) /\ ~IsMigration(r)

\* mutant: a success always names the identifier it was sent to
SendSuccessAlwaysMigrated(currentChatId, chatId) ==
    [success |-> TRUE, error |-> Undefined, migrated_chat_id |-> currentChatId]

\* SendResult
SendSuccess(currentChatId, chatId) ==
    [success |-> TRUE, error |-> Undefined,
     migrated_chat_id |-> IF currentChatId # chatId THEN currentChatId ELSE Undefined]
SendFailure(lastError) ==
    [success |-> FALSE, error |-> lastError, migrated_chat_id |-> Undefined]
NoResult == [success |-> FALSE, error |-> Undefined, migrated_chat_id |-> Undefined]

\* Entry of sendTelegramMessage(botToken, chatId, text): lines 28-33.
\* sends / responses / sleeps observe the fetch calls, their answers and the
\* sleep() calls of this delivery.
DeliveryStart(chatId) ==
    [pc |-> "attempt", chatId |-> chatId, currentChatId |-> chatId,
     attempt |-> 0, lastError |-> "", result |-> NoResult,
     sends |-> <<>>, responses |-> <<>>, sleeps |-> <<>>]

\* mutant: the loop runs one iteration more
LoopNextExtraTry(d) ==
    IF d.attempt + 1 < MAX_RETRIES + 1
      THEN [d EXCEPT !.attempt = d.attempt + 1]
      ELSE [d EXCEPT !.attempt = d.attempt + 1, !.pc = "done",
                     !.result = SendFailure(d.lastError)]

\* for-loop increment and test: attempt++ ; attempt < MAX_RETRIES, else line 72
LoopNext(d) ==
    IF d.attempt + 1 < MAX_RETRIES
      THEN [d EXCEPT !.attempt = d.attempt + 1]
      ELSE [d EXCEPT !.attempt = d.attempt + 1, !.pc = "done",
                     !.result = SendFailure(d.lastError)]

\* backoff of lines 66-69
Backoff(d) ==
    IF d.attempt < MAX_RETRIES - 1
      THEN [d EXCEPT !.sleeps = Append(d.sleeps, 400 * (d.attempt + 1))]
      ELSE d

\* mutant: a migration signal repeats the iteration without the loop increment
SendStepMigrationFree(d, r) ==
    LET d1 == [d EXCEPT !.sends = Append(d.sends, d.currentChatId),
                        !.responses = Append(d.responses, r)]
    IN  IF r.thrown
          THEN LoopNext(Backoff([d1 EXCEPT !.lastError = r.message]))
        ELSE IF r.ok
          THEN [d1 EXCEPT !.pc = "done",
                          !.result = SendSuccess(d.currentChatId, d.chatId)]
        ELSE IF r.migrate_to_chat_id # 0
          THEN [d1 EXCEPT !.currentChatId = String(r.migrate_to_chat_id)]
        ELSE LoopNext(Backoff([d1 EXCEPT !.lastError =
                 IF r.description # "" THEN r.description ELSE HttpText(r.status)]))

\* mutant: a migration signal falls through to the error and backoff lines
SendStepMigrationCounted(d, r) ==
    LET d1 == [d EXCEPT !.sends = Append(d.sends, d.currentChatId),
                        !.responses = Append(d.responses, r)]
    IN  IF r.thrown
          THEN LoopNext(Backoff([d1 EXCEPT !.lastError = r.message]))
        ELSE IF r.ok
          THEN [d1 EXCEPT !.pc = "done",
                          !.result = SendSuccess(d.currentChatId, d.chatId)]
        ELSE LoopNext(Backoff([d1 EXCEPT
                 !.currentChatId = IF r.migrate_to_chat_id # 0
                                     THEN String(r.migrate_to_chat_id)
                                     ELSE d.currentChatId,
                 !.lastError = IF r.description # "" THEN r.description
                               ELSE HttpText(r.status)]))

\* One iteration of the loop body with upstream answer r: lines 34-69
SendStep(d, r) ==
    LET d1 == [d EXCEPT !.sends = Append(d.sends, d.currentChatId),
                        !.responses = Append(d.responses, r)]
    IN  IF r.thrown
          THEN LoopNext(Backoff([d1 EXCEPT !.lastError = r.message]))
        ELSE IF r.ok
          THEN [d1 EXCEPT !.pc = "done",
                          !.result = SendSuccess(d.currentChatId, d.chatId)]
        ELSE IF r.migrate_to_chat_id # 0
          THEN \* continue: the loop increment still runs
               LoopNext([d1 EXCEPT !.currentChatId = String(r.migrate_to_chat_id)])
        ELSE LoopNext(Backoff([d1 EXCEPT !.lastError =
                 IF r.description # "" THEN r.description ELSE HttpText(r.status)]))

----------------------------------------------------------------------------
(* services/rate-limit.ts: isRateLimited *)

WINDOW_MS == 60000

\* expirationTtl of the rate-limit entry, seconds
RATE_TTL_SECONDS == 60

Ips == {"ip1", "ip2"}

\* mutant: one entry for every identifier
RateKeyShared(ip) == "rate:"

\* `rate:${ip}`
RateKey(ip) == "rate:" \o ip

\* JSON.stringify(entry) / JSON.parse(raw) of a RateLimitEntry: the text is
\* the array of its timestamps
JsonStringify(entry) == entry.timestamps
JsonParse(raw) == [timestamps |-> raw]

\* lines 17-18: raw ? JSON.parse(raw) : { timestamps: [] }
RateEntry(kv, ip, t) ==
    IF KvLive(kv, RateKey(ip), t)
      THEN JsonParse(kv[RateKey(ip)].val)
      ELSE [timestamps |-> <<>>]

\* mutant: the cutoff itself is kept (t >= cutoff)
PruneInclusive(timestamps, t) ==
    LET cutoff == t - WINDOW_MS
    IN  SelectSeq(timestamps, LAMBDA x : x >= cutoff)

\* lines 21-22: entry.timestamps.filter((t) => t > cutoff)
Prune(timestamps, t) ==
    LET cutoff == t - WINDOW_MS
    IN  SelectSeq(timestamps, LAMBDA x : x > cutoff)

\* line 25
OverLimit(timestamps, limitPerMin) == Len(timestamps) >= limitPerMin

\* mutant: the accepted call is not pushed before the entry is stored
RateWriteBackUnpushed(kv, ip, pruned, limited, stamp, t) ==
    IF limited
      THEN kv
      ELSE KvPut(kv, RateKey(ip), JsonStringify([timestamps |-> pruned]),
                 RATE_TTL_SECONDS, t)

\* mutant: a rejected call stores the pruned entry
RateWriteBackAlways(kv, ip, pruned, limited, stamp, t) ==
    KvPut(kv, RateKey(ip),
          JsonStringify([timestamps |-> IF limited THEN pruned ELSE Append(pruned, stamp)]),
          RATE_TTL_SECONDS, t)

\* mutant: the write appends to the entry stored at the time of the write
RateWriteBackMerging(kv, ip, pruned, limited, stamp, t) ==
    IF limited
      THEN kv
      ELSE KvPut(kv, RateKey(ip),
                 JsonStringify([timestamps |->
                                   Append(RateEntry(kv, ip, t).timestamps, stamp)]),
                 RATE_TTL_SECONDS, t)

\* lines 25-33: what a call that read `now` as stamp and found `pruned`
\* writes back when its kv.put runs at time t
RateWriteBack(kv, ip, pruned, limited, stamp, t) ==
    IF limited
      THEN kv
      ELSE KvPut(kv, RateKey(ip), JsonStringify([timestamps |-> Append(pruned, stamp)]),
                 RATE_TTL_SECONDS, t)

\* isRateLimited(kv, ip, limitPerMin) run without interruption at time t
isRateLimited(kv, ip, limitPerMin, t) ==
    LET pruned  == Prune(RateEntry(kv, ip, t).timestamps, t)
        limited == OverLimit(pruned, limitPerMin)
    IN  [limited |-> limited, kv |-> RateWriteBack(kv, ip, pruned, limited, t, t)]

----------------------------------------------------------------------------
(* services/idempotency.ts: isDuplicate *)

TTL_SECONDS == 300

Tokens == {"", "k1", "k2"}

\* `idem:${idempotencyKey}`
IdemKey(token) == "idem:" \o token

\* mutant: the lookup never finds a marker
IdemSeenNever(kv, idempotencyKey, t) == FALSE

\* mutant: a token another request is about to mark counts as seen, as if
\* the lookup and the marking were one step
IdemSeenClaimed(kv, idempotencyKey, t) ==
    \/ Truthy(KvGet(kv, IdemKey(idempotencyKey), t))
    \/ \E q \in DOMAIN req : req[q].pc = "idem_put" /\ req[q].key = idempotencyKey

\* lines 13-16: whether a marker of the token is found
IdemSeen(kv, idempotencyKey, t) == Truthy(KvGet(kv, IdemKey(idempotencyKey), t))

\* line 21: kv.put(key, "1", { expirationTtl: TTL_SECONDS })
IdemMark(kv, idempotencyKey, t) == KvPut(kv, IdemKey(idempotencyKey), "1", TTL_SECONDS, t)

\* mutant: a duplicate renews the marker
isDuplicateRenewing(kv, idempotencyKey, t) ==
    IF ~Truthy(idempotencyKey)
      THEN [duplicate |-> FALSE, kv |-> kv, ops |-> <<>>]
    ELSE [duplicate |-> IdemSeen(kv, idempotencyKey, t),
          kv |-> IdemMark(kv, idempotencyKey, t),
          ops |-> <<"get", "put">>]

\* isDuplicate(kv, idempotencyKey) run without interruption at time t;
\* ops lists the store operations it made
isDuplicate(kv, idempotencyKey, t) ==
    IF ~Truthy(idempotencyKey)
      THEN [duplicate |-> FALSE, kv |-> kv, ops |-> <<>>]
    ELSE IF IdemSeen(kv, idempotencyKey, t)
      THEN [duplicate |-> TRUE, kv |-> kv, ops |-> <<"get">>]
    ELSE [duplicate |-> FALSE, kv |-> IdemMark(kv, idempotencyKey, t),
          ops |-> <<"get", "put">>]

----------------------------------------------------------------------------
(* env.CONFIG *)

\* `migrated_chat:${chatId}`
MigratedKey(chatId) == "migrated_chat:" \o chatId

----------------------------------------------------------------------------
(* handlers/send.ts: sendHandler and its helpers *)

\* Env.ROUTING_JSON: set is FALSE when the variable is unset or empty, valid
\* is FALSE when JSON.parse throws, routes maps hostnames to RouteConfig
NoRoutingJson == [set |-> FALSE, valid |-> FALSE, routes |-> [h \in {} |-> 0]]
NoRoute == [chat_id |-> Undefined, bot_token |-> Undefined]

\* parseInt(env.RATE_LIMIT_PER_MIN, 10) || 30
LimitPerMin(e) ==
    LET n == ParseInt(e.RATE_LIMIT_PER_MIN)
    IN  IF n.nan \/ n.val = 0 THEN 30 ELSE n.val

\* c.req.header("CF-Connecting-IP") || c.req.header("X-Forwarded-For") || "unknown"
ClientIp(cf, xff) == IF Truthy(cf) THEN cf ELSE IF Truthy(xff) THEN xff ELSE "unknown"

\* ApiResponse with its HTTP status; status 0: no response yet
NoResp == [status |-> 0, st |-> "", error |-> Undefined, detail |-> Undefined,
           request_id |-> Undefined, duplicate |-> FALSE]
\* jsonError(c, error, status)
jsonError(error, status) == [NoResp EXCEPT !.status = status, !.st = "error", !.error = error]
\* an exception leaving the handler: the framework's 500 answer
Uncaught == [NoResp EXCEPT !.status = 500, !.st = "exception"]

\* line 50: (data.website || "").trim()
HoneypotFilled(data) == Trim(data.website) # <<>>

\* mutant: a request passes only when 800 ms are shown to have elapsed
TooFastUnlessShown(data, t) ==
    LET tsClient == ParseInt(IF data.ts = <<>> THEN <<"0">> ELSE data.ts)
    IN  tsClient.nan \/ (tsClient.val > 0 /\ t - tsClient.val < 800)

\* mutant: exactly 800 ms is still too fast
TooFastInclusive(data, t) ==
    LET tsClient == ParseInt(IF data.ts = <<>> THEN <<"0">> ELSE data.ts)
    IN  ~tsClient.nan /\ tsClient.val > 0 /\ t - tsClient.val <= 800

\* lines 57-58: tsClient > 0 && Date.now() - tsClient < 800
TooFast(data, t) ==
    LET tsClient == ParseInt(IF data.ts = <<>> THEN <<"0">> ELSE data.ts)
    IN  ~tsClient.nan /\ tsClient.val > 0 /\ t - tsClient.val < 800

\* lines 66-69
Sanitized(data) ==
    [name     |-> trimLimit(data.name, 256),
     email    |-> trimLimit(data.email, 256),
     telegram |-> Slice0(sanitizeTelegram(data.telegram), 64),
     message  |-> trimLimit(data.message, 5000)]

\* mutant: a name makes the payload acceptable
EmptyPayloadUnlessNamed(f) ==
    f.message = <<>> /\ f.telegram = <<>> /\ f.email = <<>> /\ f.name = <<>>

\* line 71: !message && !telegram && !email
EmptyPayload(f) == f.message = <<>> /\ f.telegram = <<>> /\ f.email = <<>>

\* line 77: data.cf_turnstile_response || data.hcaptcha_response || ""
CaptchaToken(data) ==
    IF Truthy(data.cf_turnstile_response) THEN data.cf_turnstile_response
    ELSE IF Truthy(data.hcaptcha_response) THEN data.hcaptcha_response
    ELSE ""

\* payloadHash({host, name, email, telegram, message}): the digest stands
\* for the text it is taken of, the JSON with its keys sorted
payloadHash(host, f) ==
    "sha256({email:" \o Flat(f.email) \o ",host:" \o Flat(host)
        \o ",message:" \o Flat(f.message) \o ",name:" \o Flat(f.name)
        \o ",telegram:" \o Flat(f.telegram) \o "})"

\* mutant: a header that is present is used even when it is empty
IdempotencyKeyOfHeader(header, host, f) ==
    IF header # Undefined THEN header ELSE payloadHash(host, f)

\* lines 84-86: c.req.header("Idempotency-Key") || await payloadHash(...)
IdempotencyKeyOf(header, host, f) ==
    IF Truthy(header) THEN header ELSE payloadHash(host, f)

\* mutant: the migration cache is not consulted
getRoutingUncached(host, e, configKv, readFails, t) ==
    LET routing == IF e.ROUTING_JSON.set /\ e.ROUTING_JSON.valid
                     THEN e.ROUTING_JSON.routes ELSE NoRoutingJson.routes
        route   == IF Flat(host) \in DOMAIN routing THEN routing[Flat(host)] ELSE NoRoute
        chatId  == IF Truthy(route.chat_id) THEN route.chat_id ELSE e.TG_DEFAULT_CHAT_ID
    IN  [token |-> IF Truthy(route.bot_token) THEN route.bot_token ELSE e.BOT_TOKEN,
         chatId |-> chatId,
         configured |-> chatId]

\* getRouting(host, env) with the CONFIG store as it is at time t; readFails
\* is TRUE when env.CONFIG.get throws (lines 153-158);
\* configured is the identifier before the migration cache is consulted
getRouting(host, e, configKv, readFails, t) ==
    LET routing == IF e.ROUTING_JSON.set /\ e.ROUTING_JSON.valid
                     THEN e.ROUTING_JSON.routes ELSE NoRoutingJson.routes
        route   == IF Flat(host) \in DOMAIN routing THEN routing[Flat(host)] ELSE NoRoute
        chatId  == IF Truthy(route.chat_id) THEN route.chat_id ELSE e.TG_DEFAULT_CHAT_ID
        migrated == IF readFails THEN Undefined
                    ELSE KvGet(configKv, MigratedKey(chatId), t)
    IN  [token |-> IF Truthy(route.bot_token) THEN route.bot_token ELSE e.BOT_TOKEN,
         chatId |-> IF Truthy(migrated) THEN migrated ELSE chatId,
         configured |-> chatId]

\* line 98: !token || !chatId
NotConfigured(rt) == ~Truthy(rt.token) \/ ~Truthy(rt.chatId)

\* expirationTtl of the migration-cache entry: 60 * 60 * 24 * 365
MIGRATED_TTL_SECONDS == 31536000

\* The handler's state for one request.
\*   fx:  the stages and outside calls it has made so far, in order
\*   obs: what was true of the request when it was read (for the claims)
IdleReq ==
    [pc |-> "idle", id |-> 0, host |-> <<>>, ip |-> "", rlNow |-> 0, rlPruned |-> <<>>,
     fields |-> [name |-> <<>>, email |-> <<>>, telegram |-> <<>>, message |-> <<>>],
     key |-> "", configured |-> "", text |-> "",
     d |-> [DeliveryStart(Undefined) EXCEPT !.pc = "idle"],
     resp |-> NoResp, fx |-> <<>>,
     obs |-> [websiteFilled |-> FALSE, marked |-> FALSE, settled |-> FALSE,
              current |-> "", first |-> "",
              delivery |-> [DeliveryStart(Undefined) EXCEPT !.pc = "idle"],
              token |-> "", captcha |-> "", supplied |-> ""]]

\* mutant: the response is made but the handler does not return
RespondWithoutReturn(rq, response) == [rq EXCEPT !.resp = response]

\* return c.json(response, status): the handler ends and its locals are
\* gone; the response and what the request did remain
Respond(rq, response) ==
    [IdleReq EXCEPT !.pc = "done", !.id = rq.id, !.resp = response, !.key = rq.key,
                    !.fx = rq.fx, !.obs = rq.obs]

\* a stage or an outside call is entered
Did(rq, what) == [rq EXCEPT !.fx = Append(rq.fx, what)]

\* mutant: the timing gate is placed before the honeypot check
ValidateTimingFirst(rq, bodyOk, data, e, t) ==
    LET r1 == Did(rq, "parse")
        r2 == Did(r1, "honeypot")
        r3 == Did(r2, "timing")
        f  == Sanitized(data)
        r4 == Did([r3 EXCEPT !.fields = f], "empty")
        r5 == Did([r4 EXCEPT !.obs.token = CaptchaToken(data)], "captcha")
    IN  IF ~bodyOk THEN Respond(r1, Uncaught)
        ELSE IF TooFast(data, t) THEN Respond(r3, jsonError("too_fast", 400))
        ELSE IF HoneypotFilled(data)
          THEN Respond(r2, [NoResp EXCEPT !.status = 200, !.st = "ok"])
        ELSE IF EmptyPayload(f) THEN Respond(r4, jsonError("empty_payload", 400))
        ELSE IF e.ENABLE_TURNSTILE # "true" THEN [r4 EXCEPT !.pc = "idem_get"]
        ELSE IF ~Truthy(CaptchaToken(data)) \/ ~Truthy(e.TURNSTILE_SECRET)
          THEN Respond(r5, jsonError("captcha_failed", 400))
        ELSE [r5 EXCEPT !.pc = "captcha"]

\* lines 38-81 up to the first await after the body is read: the body is
\* parsed (bodyOk is FALSE when c.req.json() or c.req.formData() throws),
\* then honeypot, timing gate, sanitization, empty-payload check and the
\* synchronous part of the captcha stage
Validate(rq, bodyOk, data, e, t) ==
    LET r1 == Did(rq, "parse")
        r2 == Did(r1, "honeypot")
        r3 == Did(r2, "timing")
        f  == Sanitized(data)
        r4 == Did([r3 EXCEPT !.fields = f], "empty")
        r5 == Did([r4 EXCEPT !.obs.token = CaptchaToken(data)], "captcha")
    IN  IF ~bodyOk THEN Respond(r1, Uncaught)
        ELSE IF HoneypotFilled(data)
          THEN Respond(r2, [NoResp EXCEPT !.status = 200, !.st = "ok"])
        ELSE IF TooFast(data, t) THEN Respond(r3, jsonError("too_fast", 400))
        ELSE IF EmptyPayload(f) THEN Respond(r4, jsonError("empty_payload", 400))
        ELSE IF e.ENABLE_TURNSTILE # "true" THEN [r4 EXCEPT !.pc = "idem_get"]
        ELSE IF ~Truthy(CaptchaToken(data)) \/ ~Truthy(e.TURNSTILE_SECRET)
          THEN Respond(r5, jsonError("captcha_failed", 400))
        ELSE [r5 EXCEPT !.pc = "captcha"]

\* lines 88-93: the answer to a duplicate
DuplicateResponse(key) ==
    [NoResp EXCEPT !.status = 200, !.st = "ok", !.request_id = key, !.duplicate = TRUE]

\* line 124
OkResponse(key) == [NoResp EXCEPT !.status = 200, !.st = "ok", !.request_id = key]

\* mutant: the delivery failure is answered with status 500
SendFailedAs500(result) ==
    [jsonError("telegram_send_failed", 500) EXCEPT !.detail = result.error]

\* lines 106-111
SendFailedResponse(result) ==
    [jsonError("telegram_send_failed", 502) EXCEPT !.detail = result.error]

----------------------------------------------------------------------------
(* What the specifications below do not use *)

NoRateCalls == [limit |-> 0, n |-> 0, ticks |-> 0, accepted |-> [ip \in Ips |-> <<>>],
                last |-> [ip |-> "ip1", t |-> 0, limited |-> FALSE]]
NoCall == [op |-> "none"]
NoPipeline ==
    /\ fn = NoCall
    /\ env = [ALLOWED_ORIGINS |-> <<>>] /\ req = <<>> /\ pending = {}
    /\ tg = [migrated |-> <<>>, delivered |-> {}, learned |-> {}]
    /\ pl = [started |-> 0, ticks |-> 0, upgraded |-> 0, requests |-> 0,
             inflight |-> 0, upgrades |-> 0]
NoIdemCalls == [n |-> 0, ticks |-> 0, fresh |-> [k \in Tokens |-> <<>>],
                last |-> [token |-> "", t |-> 0, duplicate |-> FALSE, ops |-> <<>>]]

----------------------------------------------------------------------------
(* Delivery specification: one sendTelegramMessage call against an upstream *)
(* that may answer anything.                                               *)

Responses ==
    {RespOk} \cup {RespFail(d, s) : d \in {"", "Forbidden"}, s \in {400, 500}}
             \cup {RespMigrate(n) : n \in NumChatIds}
             \cup {RespThrow("network error")}

NoDelivery == [DeliveryStart(Undefined) EXCEPT !.pc = "idle"]

InitDelivery ==
    /\ now = 0
    /\ rateKV = EmptyKV /\ idemKV = EmptyKV /\ configKV = EmptyKV
    /\ rl = NoRateCalls /\ idm = NoIdemCalls
    /\ NoPipeline
    /\ \E c \in ChatIds : dv = DeliveryStart(c)

DvAttempt ==
    /\ dv.pc = "attempt"
    /\ \E r \in Responses : dv' = SendStep(dv, r)
    /\ UNCHANGED <<now, rateKV, idemKV, configKV, rl, idm, env, req, pending, tg, pl, fn>>

NextDelivery == DvAttempt

SpecDelivery == InitDelivery /\ [][NextDelivery]_vars

----------------------------------------------------------------------------
(* Rate-limiter specification: isRateLimited calls made one after another, *)
(* for two identifiers, with time passing between them.                    *)
(*   rl.accepted[ip]: the times of the accepted calls of ip, in order      *)
(*   rl.last:         the latest call and its answer                       *)

MaxLimit == 2
MaxRateCalls == 4
MaxRateTicks == 4
RateTicks == {1, 59999}

InitRate ==
    /\ now = 0
    /\ rateKV = EmptyKV /\ idemKV = EmptyKV /\ configKV = EmptyKV
    /\ dv = NoDelivery /\ idm = NoIdemCalls
    /\ NoPipeline
    /\ \E l \in 1..MaxLimit : rl = [NoRateCalls EXCEPT !.limit = l]

RlCall(ip) ==
    /\ rl.n < MaxRateCalls
    /\ LET res == isRateLimited(rateKV, ip, rl.limit, now)
       IN  /\ rateKV' = res.kv
           /\ rl' = [rl EXCEPT !.n = @ + 1,
                               !.accepted[ip] = IF res.limited THEN @ ELSE Append(@, now),
                               !.last = [ip |-> ip, t |-> now, limited |-> res.limited]]
    /\ UNCHANGED <<now, idemKV, configKV, dv, idm, env, req, pending, tg, pl, fn>>

RlTick(d) ==
    /\ rl.ticks < MaxRateTicks
    /\ now' = now + d
    /\ rl' = [rl EXCEPT !.ticks = @ + 1]
    /\ UNCHANGED <<rateKV, idemKV, configKV, dv, idm, env, req, pending, tg, pl, fn>>

NextRate ==
    \/ \E ip \in Ips : RlCall(ip)
    \/ \E d \in RateTicks : RlTick(d)

SpecRate == InitRate /\ [][NextRate]_vars

----------------------------------------------------------------------------
(* Idempotency specification: isDuplicate calls made one after another.    *)
(*   idm.fresh[k]: the times of the calls of token k answered not-duplicate *)
(*   idm.last:     the latest call, its answer and its store operations    *)

MaxIdemCalls == 4
MaxIdemTicks == 3
IdemTicks == {1, 299999}

InitIdem ==
    /\ now = 0
    /\ rateKV = EmptyKV /\ idemKV = EmptyKV /\ configKV = EmptyKV
    /\ dv = NoDelivery /\ rl = NoRateCalls
    /\ NoPipeline
    /\ idm = NoIdemCalls

IdmCall(token) ==
    /\ idm.n < MaxIdemCalls
    /\ LET res == isDuplicate(idemKV, token, now)
       IN  /\ idemKV' = res.kv
           /\ idm' = [idm EXCEPT !.n = @ + 1,
                                 !.fresh[token] = IF res.duplicate THEN @ ELSE Append(@, now),
                                 !.last = [token |-> token, t |-> now,
                                           duplicate |-> res.duplicate, ops |-> res.ops]]
    /\ UNCHANGED <<now, rateKV, configKV, dv, rl, env, req, pending, tg, pl, fn>>

IdmTick(d) ==
    /\ idm.ticks < MaxIdemTicks
    /\ now' = now + d
    /\ idm' = [idm EXCEPT !.ticks = @ + 1]
    /\ UNCHANGED <<rateKV, idemKV, configKV, dv, rl, env, req, pending, tg, pl, fn>>

NextIdem ==
    \/ \E token \in Tokens : IdmCall(token)
    \/ \E d \in IdemTicks : IdmTick(d)

SpecIdem == InitIdem /\ [][NextIdem]_vars

----------------------------------------------------------------------------
(* Pipeline specification: POST /send requests handled concurrently, each  *)
(* await of sendHandler a step; the Bot API upgrades chats and answers;    *)
(* waitUntil writes land or fail later.                                    *)

MaxRequests == 2
MaxPipeTicks == 1
PipeTicks == {300000}
MaxUpgrades == 1
MaxInFlight == 1

\* the handler instances that can run at the same time
Slots == {1, 2}

EnvBase ==
    [ALLOWED_ORIGINS |-> <<>>, RATE_LIMIT_PER_MIN |-> <<"3", "0">>,
     ENABLE_TURNSTILE |-> "false", TURNSTILE_SECRET |-> Undefined,
     BOT_TOKEN |-> "bot1", TG_DEFAULT_CHAT_ID |-> "-1001",
     ROUTING_JSON |-> NoRoutingJson]

\* the deployments the requests run against
Envs ==
    { EnvBase,
      [EnvBase EXCEPT !.ENABLE_TURNSTILE = "true", !.TURNSTILE_SECRET = "secret"],
      [EnvBase EXCEPT !.ENABLE_TURNSTILE = "true"],
      [EnvBase EXCEPT !.RATE_LIMIT_PER_MIN = <<"1">>, !.BOT_TOKEN = Undefined],
      [EnvBase EXCEPT !.ALLOWED_ORIGINS = <<<<" ", "*", ".", "A", ".", "c", "o">>,
                                            <<"a", ".", "c", "o">>>>] }

Origins == {NoOrigin, OriginOf(<<"w", "w", "w", ".", "A", ".", "c", "o">>)}

\* the bodies a client can post at time t
EmptyData ==
    [website |-> <<>>, ts |-> <<>>, name |-> <<>>, email |-> <<>>, telegram |-> <<>>,
     message |-> <<>>, cf_turnstile_response |-> Undefined,
     hcaptcha_response |-> Undefined]
\* the fields of a body that parses; no or another content type gives EmptyData
Bodies(t) ==
    [website : {<<>>, <<" ">>, <<"x">>},
     ts : {<<>>, IntChars(t - 500), IntChars(t - 800)},
     name : {<<>>}, email : {<<>>}, telegram : {<<>>},
     message : {<<" ">>, <<"h", "i">>},
     cf_turnstile_response : {Undefined, "tok"},
     hcaptcha_response : {Undefined}]

RECURSIVE CurrentChat(_, _)
\* the identifier a chat has now, after the upgrades the Bot API made
CurrentChat(migrated, c) ==
    IF migrated[c] = 0 THEN c ELSE CurrentChat(migrated, String(migrated[c]))

RECURSIVE Upgraded(_, _)
\* the identifiers on the way from c to its current one, the current excluded
Upgraded(migrated, c) ==
    IF migrated[c] = 0 THEN {} ELSE {c} \cup Upgraded(migrated, String(migrated[c]))

\* the identifier an upgrade of chat c gives it
NextId(c) == CASE c = "-1001" -> -1002 [] c = "-1002" -> -1003 [] OTHER -> 0

\* what the Bot API can answer to a sendMessage for chat c
TgAnswers(c) ==
    IF tg.migrated[c] # 0
      THEN {RespMigrate(tg.migrated[c])}
      ELSE {RespOk, RespFail("", 500), RespFail("Forbidden", 400)}

InFlight == {r \in Slots : req[r].pc \notin {"idle", "done"}}
Free == Slots \ InFlight

\* the pipeline before the first request, for a deployment of `envs` taking
\* `requests` requests, at most `inflight` at a time
InitPipeline(envs, requests, inflight, upgrades) ==
    /\ now = 100000
    /\ rateKV = EmptyKV /\ idemKV = EmptyKV /\ configKV = EmptyKV
    /\ dv = NoDelivery /\ rl = NoRateCalls /\ idm = NoIdemCalls /\ fn = NoCall
    /\ env \in envs
    /\ req = [r \in Slots |-> IdleReq]
    /\ pending = {}
    /\ tg = [migrated |-> [c \in ChatIds |-> 0], delivered |-> {}, learned |-> {}]
    /\ pl = [started |-> 0, ticks |-> 0, upgraded |-> 0, requests |-> requests,
             inflight |-> inflight, upgrades |-> upgrades]

Init == InitPipeline(Envs, MaxRequests, MaxInFlight, MaxUpgrades)

\* lines 14-28: a request arrives and its origin is checked
Arrive(r) ==
    /\ r \in Free /\ \A q \in Free : r <= q
    /\ pl.started < pl.requests
    /\ Cardinality(InFlight) < pl.inflight
    /\ pl' = [pl EXCEPT !.started = @ + 1]
    /\ \E origin \in Origins :
         LET host    == normalizeHost(origin)
             allowed == getAllowedOrigins(configKV, env.ALLOWED_ORIGINS, now)
             rq      == Did([IdleReq EXCEPT !.id = pl.started + 1, !.host = host],
                            "origin")
         IN  req' = [req EXCEPT ![r] =
                 IF ~matchOrigin(host, allowed)
                   THEN Respond(rq, [jsonError("origin_not_allowed", 403) EXCEPT
                            !.detail = "host \"" \o Flat(host)
                                       \o "\" does not match allowed patterns"])
                   ELSE [rq EXCEPT !.pc = "rate_get"]]
    /\ UNCHANGED <<now, rateKV, idemKV, configKV, dv, rl, idm, env, pending, tg, fn>>

\* lines 31-35 and rate-limit.ts 14-27: the entry is read and judged
RateGet(r) ==
    /\ req[r].pc = "rate_get"
    /\ \E cf \in {Undefined, "ip1"}, xff \in {Undefined, "ip1"} :
         LET ip      == ClientIp(cf, xff)
             pruned  == Prune(RateEntry(rateKV, ip, now).timestamps, now)
             rq      == Did([req[r] EXCEPT !.ip = ip], "rate_get")
         IN  req' = [req EXCEPT ![r] =
                 IF OverLimit(pruned, LimitPerMin(env))
                   THEN Respond(rq, jsonError("rate_limited", 429))
                   ELSE [rq EXCEPT !.pc = "rate_put", !.rlNow = now,
                                   !.rlPruned = pruned]]
    /\ UNCHANGED <<now, rateKV, idemKV, configKV, dv, rl, idm, env, pending, tg, pl, fn>>

\* rate-limit.ts 30-35: the entry is written back
RatePut(r) ==
    /\ req[r].pc = "rate_put"
    /\ rateKV' = RateWriteBack(rateKV, req[r].ip, req[r].rlPruned, FALSE,
                               req[r].rlNow, now)
    /\ req' = [req EXCEPT ![r] = [Did(req[r], "rate_put") EXCEPT
                   !.pc = "parse", !.ip = "", !.rlNow = 0, !.rlPruned = <<>>]]
    /\ UNCHANGED <<now, idemKV, configKV, dv, rl, idm, env, pending, tg, pl, fn>>

\* lines 38-81: body, honeypot, timing gate, payload check, captcha inputs
Parse(r) ==
    /\ req[r].pc = "parse"
    /\ \E body \in ({TRUE} \X (Bodies(now) \cup {EmptyData})) \cup {<<FALSE, EmptyData>>} :
         LET bodyOk == body[1]
             data   == body[2]
             seen   == [req[r] EXCEPT !.obs.websiteFilled =
                           bodyOk /\ \E i \in 1..Len(data.website) :
                                        ~IsSpace(data.website[i])]
         IN  req' = [req EXCEPT ![r] = Validate(seen, bodyOk, data, env, now)]
    /\ UNCHANGED <<now, rateKV, idemKV, configKV, dv, rl, idm, env, pending, tg, pl, fn>>

\* what the siteverify call can come to: success true or false in the
\* answer, an answer without the field, a body response.json() cannot
\* parse, a fetch that throws
CaptchaAnswers == {"success", "failure", "no_field", "unparsable", "throws"}

\* mutant: a call that throws lets the request pass
CaptchaFailOpen(r) ==
    /\ req[r].pc = "captcha"
    /\ \E answer \in CaptchaAnswers :
         LET rq == Did([req[r] EXCEPT !.obs.captcha = answer], "captcha_call")
         IN  req' = [req EXCEPT ![r] =
                 IF answer \in {"success", "throws"}
                   THEN [rq EXCEPT !.pc = "idem_get"]
                   ELSE Respond(rq, jsonError("captcha_failed", 400))]
    /\ UNCHANGED <<now, rateKV, idemKV, configKV, dv, rl, idm, env, pending, tg, pl, fn>>

\* verifyTurnstile, lines 169-183: the siteverify call and its answer
Captcha(r) ==
    /\ req[r].pc = "captcha"
    /\ \E answer \in CaptchaAnswers :
         LET rq == Did([req[r] EXCEPT !.obs.captcha = answer], "captcha_call")
         IN  req' = [req EXCEPT ![r] =
                 IF answer = "success"
                   THEN [rq EXCEPT !.pc = "idem_get"]
                   ELSE Respond(rq, jsonError("captcha_failed", 400))]
    /\ UNCHANGED <<now, rateKV, idemKV, configKV, dv, rl, idm, env, pending, tg, pl, fn>>

\* lines 84-93 and idempotency.ts 11-18: the token is made and looked up
IdemGet(r) ==
    /\ req[r].pc = "idem_get"
    /\ \E header \in {Undefined, "", "k1"} :
         LET key == IdempotencyKeyOf(header, req[r].host, req[r].fields)
             rq  == [req[r] EXCEPT !.key = key,
                                   !.obs.supplied = IF Truthy(header) THEN header ELSE ""]
         IN  req' = [req EXCEPT ![r] =
                 IF ~Truthy(key) THEN [rq EXCEPT !.pc = "routing"]
                 ELSE IF IdemSeen(idemKV, key, now)
                   THEN Respond([Did(rq, "idem_get") EXCEPT
                                    !.obs.marked = KvLive(idemKV, IdemKey(key), now)],
                                DuplicateResponse(key))
                 ELSE [Did(rq, "idem_get") EXCEPT
                          !.pc = "idem_put",
                          !.obs.marked = KvLive(idemKV, IdemKey(key), now)]]
    /\ UNCHANGED <<now, rateKV, idemKV, configKV, dv, rl, idm, env, pending, tg, pl, fn>>

\* idempotency.ts 21-23: the marker is written
IdemPut(r) ==
    /\ req[r].pc = "idem_put"
    /\ idemKV' = IdemMark(idemKV, req[r].key, now)
    /\ req' = [req EXCEPT ![r] = [Did(req[r], "idem_put") EXCEPT !.pc = "routing"]]
    /\ UNCHANGED <<now, rateKV, configKV, dv, rl, idm, env, pending, tg, pl, fn>>

\* lines 96-104: getRouting, the configuration check, the message text and
\* the entry of sendTelegramMessage
Routing(r) ==
    /\ req[r].pc = "routing"
    /\ \E readFails \in BOOLEAN :
       LET rt == getRouting(req[r].host, env, configKV, readFails, now)
           up == Upgraded(tg.migrated, rt.configured)
           rq == Did([req[r] EXCEPT
                         !.configured = rt.configured,
                         !.obs.settled = ~readFails /\ up # {} /\ up \subseteq tg.learned,
                         !.obs.current = CurrentChat(tg.migrated, rt.configured),
                         !.obs.first = rt.chatId],
                     "routing")
           f  == req[r].fields
       IN  req' = [req EXCEPT ![r] =
               IF NotConfigured(rt)
                 THEN Respond(rq, jsonError("routing_not_configured", 500))
                 ELSE [rq EXCEPT !.pc = "send", !.d = DeliveryStart(rt.chatId),
                          !.text = buildMessageText(f.name, f.email, f.telegram,
                                                    f.message, req[r].host)]]
    /\ UNCHANGED <<now, rateKV, idemKV, configKV, dv, rl, idm, env, pending, tg, pl, fn>>

\* the identifiers a delivery was redirected away from
RedirectedFrom(d) ==
    {d.sends[i] : i \in {j \in 1..Len(d.responses) : IsMigration(d.responses[j])}}

\* telegram.ts 33-72 and send.ts 104-124: one sendMessage call and its
\* answer; when the delivery ends, the cache write is handed to waitUntil
\* and the response is returned
Send(r) ==
    /\ req[r].pc = "send"
    /\ \E answer \in TgAnswers(req[r].d.currentChatId) :
         LET d2 == SendStep(req[r].d, answer)
             rq == [Did(req[r], "send") EXCEPT
                       !.d = d2,
                       !.obs.delivery = IF d2.pc = "done" THEN d2 ELSE @]
         IN  IF d2.pc # "done"
               THEN req' = [req EXCEPT ![r] = rq] /\ UNCHANGED <<pending, tg>>
             ELSE IF ~d2.result.success
               THEN /\ req' = [req EXCEPT ![r] = Respond(rq, SendFailedResponse(d2.result))]
                    /\ UNCHANGED <<pending, tg>>
             ELSE /\ tg' = [tg EXCEPT !.delivered =
                               @ \cup {[key |-> req[r].key, text |-> req[r].text]}]
                  /\ IF Truthy(d2.result.migrated_chat_id)
                       THEN /\ pending' = pending \cup
                                 {[id |-> req[r].id, key |-> d2.chatId,
                                   val |-> d2.result.migrated_chat_id,
                                   learned |-> RedirectedFrom(d2)]}
                            /\ req' = [req EXCEPT ![r] =
                                 Respond(Did(rq, "cache_put"), OkResponse(req[r].key))]
                       ELSE /\ pending' = pending
                            /\ req' = [req EXCEPT ![r] = Respond(rq, OkResponse(req[r].key))]
    /\ UNCHANGED <<now, rateKV, idemKV, configKV, dv, rl, idm, env, pl, fn>>

\* mutant: the write is keyed by the identifier the chat was upgraded to
CacheWriteLandsUnderNewId(w) ==
    /\ w \in pending
    /\ configKV' = KvPut(configKV, MigratedKey(w.val), w.val, MIGRATED_TTL_SECONDS, now)
    /\ pending' = pending \ {w}
    /\ tg' = [tg EXCEPT !.learned = @ \cup w.learned]
    /\ UNCHANGED <<now, rateKV, idemKV, dv, rl, idm, env, req, pl, fn>>

\* send.ts 116-120: the write handed to waitUntil reaches the store
CacheWriteLands(w) ==
    /\ w \in pending
    /\ configKV' = KvPut(configKV, MigratedKey(w.key), w.val, MIGRATED_TTL_SECONDS, now)
    /\ pending' = pending \ {w}
    /\ tg' = [tg EXCEPT !.learned = @ \cup w.learned]
    /\ UNCHANGED <<now, rateKV, idemKV, dv, rl, idm, env, req, pl, fn>>

\* ... or its promise rejects, which nobody awaits
CacheWriteFails(w) ==
    /\ w \in pending
    /\ pending' = pending \ {w}
    /\ UNCHANGED <<now, rateKV, idemKV, configKV, dv, rl, idm, env, req, tg, pl, fn>>

\* the Bot API upgrades the chat the deployment is configured for
TgMigrate(c) ==
    /\ c = CurrentChat(tg.migrated, env.TG_DEFAULT_CHAT_ID)
    /\ NextId(c) # 0
    /\ pl.upgraded < pl.upgrades
    /\ tg' = [tg EXCEPT !.migrated[c] = NextId(c)]
    /\ pl' = [pl EXCEPT !.upgraded = @ + 1]
    /\ UNCHANGED <<now, rateKV, idemKV, configKV, dv, rl, idm, env, req, pending, fn>>

\* time passes
Tick(d) ==
    /\ pl.ticks < MaxPipeTicks
    /\ now' = now + d
    /\ pl' = [pl EXCEPT !.ticks = @ + 1]
    /\ UNCHANGED <<rateKV, idemKV, configKV, dv, rl, idm, env, req, pending, tg, fn>>

Next ==
    \/ \E r \in Slots :
         \/ Arrive(r) \/ RateGet(r) \/ RatePut(r) \/ Parse(r) \/ Captcha(r)
         \/ IdemGet(r) \/ IdemPut(r) \/ Routing(r) \/ Send(r)
    \/ \E w \in pending : CacheWriteLands(w) \/ CacheWriteFails(w)
    \/ \E c \in ChatIds : TgMigrate(c)
    \/ \E d \in PipeTicks : Tick(d)

Spec == Init /\ [][Next]_vars

----------------------------------------------------------------------------
(* Migration specification: one deployment without captcha, its requests   *)
(* handled one after another while the chat is upgraded twice.             *)

MaxMigrationRequests == 3
MaxMigrationUpgrades == 2

InitMigration ==
    InitPipeline({EnvBase}, MaxMigrationRequests, MaxInFlight, MaxMigrationUpgrades)

NextMigration ==
    \/ \E r \in Slots :
         \/ Arrive(r) \/ RateGet(r) \/ RatePut(r) \/ Parse(r)
         \/ IdemGet(r) \/ IdemPut(r) \/ Routing(r) \/ Send(r)
    \/ \E w \in pending : CacheWriteLands(w) \/ CacheWriteFails(w)
    \/ \E c \in ChatIds : TgMigrate(c)

SpecMigration == InitMigration /\ [][NextMigration]_vars

----------------------------------------------------------------------------
(* Function specification: getRouting, matchOrigin, the origin check and   *)
(* the validation stages, each called on its own with inputs of every      *)
(* kind; fn holds the latest call, its inputs and what it gave.            *)

ACo == <<"a", ".", "c", "o">>
BCo == <<"b", ".", "c", "o">>

\* routing tables: none, or one route for a.co
RouteTables ==
    {NoRoutingJson.routes} \cup
    {[h \in {"a.co"} |-> [chat_id |-> c, bot_token |-> b]] :
        c \in {Undefined, "", "-1002"}, b \in {Undefined, "bot2"}}

\* ROUTING_JSON unset, holding text that does not parse, or holding a table
RoutingJsons ==
    {NoRoutingJson} \cup
    {[set |-> TRUE, valid |-> v, routes |-> t] : v \in BOOLEAN, t \in RouteTables}

RoutingEnvs ==
    {[EnvBase EXCEPT !.ROUTING_JSON = j, !.BOT_TOKEN = b, !.TG_DEFAULT_CHAT_ID = c] :
        j \in RoutingJsons, b \in {Undefined, "bot1"}, c \in {Undefined, "-1001"}}

\* the migration cache after earlier deliveries wrote the keys of `ids`
RECURSIVE CacheOf(_)
CacheOf(ids) ==
    IF ids = {} THEN EmptyKV
    ELSE LET c == CHOOSE x \in ids : TRUE
         IN  KvPut(CacheOf(ids \ {c}), MigratedKey(c), "-1003", MIGRATED_TTL_SECONDS, 0)

RoutingCaches == {CacheOf(ids) : ids \in SUBSET {"-1001", "-1002"}}

ExampleCom == <<"e", "x", "a", "m", "p", "l", "e", ".", "c", "o", "m">>
UpperExampleCom == <<"E", "X", "A", "M", "P", "L", "E", ".", "C", "O", "M">>
Star == <<"*">>
StarDotExampleCom == <<"*", ".">> \o ExampleCom

\* hostnames: what comes before the domain, and the domain
HostPrefixes ==
    { <<>>, <<".">>, <<"a">>, <<"a", ".">>, <<"A", ".">>, <<"a", ".", "b", ".">>,
      <<"b", "a", "d">>, <<"a", ".", "b", "a", "d">> }
HostSuffixes ==
    { ExampleCom, UpperExampleCom, SubSeq(ExampleCom, 1, 10), ExampleCom \o <<".", "a">> }
Hosts == {<<>>, ACo} \cup {p \o x : p \in HostPrefixes, x \in HostSuffixes}

\* allow-lists
PatternSets ==
    { <<>>, <<Star>>, <<ACo, Star>>, <<Star, ACo>>, <<ACo>>, <<ExampleCom>>,
      <<StarDotExampleCom>>, <<<<"*", ".">> \o UpperExampleCom>>,
      <<ExampleCom, StarDotExampleCom>> }

\* Origin headers: none, or one new URL() parses
OriginHeaders ==
    {NoOrigin} \cup
    {OriginOf(h) : h \in {ExampleCom, WwwDot \o ExampleCom, <<"W", "W", "W", ".">> \o ExampleCom,
                          <<"a", ".">> \o ExampleCom, ACo}}

\* ALLOWED_ORIGINS, as the pieces between its commas
AllowedEnvValues ==
    { <<>>, <<StarDotExampleCom>>, <<<<" ">> \o StarDotExampleCom, ExampleCom>>,
      <<Star>>, <<ACo>> }

\* the CONFIG store with no allowed_origins document, or with one
OriginStores ==
    {EmptyKV} \cup
    {KvPutForever(EmptyKV, OriginsKey, [corrupt |-> c, patterns |-> ps]) :
        c \in BOOLEAN, ps \in {<<>>, <<StarDotExampleCom>>, <<Star>>, <<BCo>>}}

InitCalls ==
    /\ now = 100000
    /\ rateKV = EmptyKV /\ idemKV = EmptyKV /\ configKV = EmptyKV
    /\ dv = NoDelivery /\ rl = NoRateCalls /\ idm = NoIdemCalls
    /\ NoPipeline

\* send.ts 96-100: getRouting and the configuration check
CallGetRouting ==
    /\ fn = NoCall
    /\ \E host \in {<<>>, ACo, BCo}, e \in RoutingEnvs, kv \in RoutingCaches,
          readFails \in BOOLEAN :
         LET rt == getRouting(host, e, kv, readFails, now)
         IN  fn' = [op |-> "getRouting", host |-> host, e |-> e, kv |-> kv,
                    readFails |-> readFails, out |-> rt,
                    rejected |-> NotConfigured(rt)]
    /\ UNCHANGED <<now, rateKV, idemKV, configKV, dv, rl, idm, env, req, pending, tg, pl>>

\* origin.ts 35-38: matchOrigin(host, allowedOrigins)
CallMatchOrigin ==
    /\ fn = NoCall
    /\ \E host \in Hosts, patterns \in PatternSets :
         fn' = [op |-> "matchOrigin", host |-> host, patterns |-> patterns,
                out |-> matchOrigin(host, patterns)]
    /\ UNCHANGED <<now, rateKV, idemKV, configKV, dv, rl, idm, env, req, pending, tg, pl>>

\* send.ts 15-19: the origin check of POST /send
CallOriginCheck ==
    /\ fn = NoCall
    /\ \E origin \in OriginHeaders, envValue \in AllowedEnvValues, kv \in OriginStores :
         LET host           == normalizeHost(origin)
             allowedOrigins == getAllowedOrigins(kv, envValue, now)
         IN  fn' = [op |-> "originCheck", origin |-> origin, envValue |-> envValue,
                    kv |-> kv, allowedOrigins |-> allowedOrigins,
                    out |-> matchOrigin(host, allowedOrigins)]
    /\ UNCHANGED <<now, rateKV, idemKV, configKV, dv, rl, idm, env, req, pending, tg, pl>>

\* the milliseconds between the ts a client sends and the server's clock
Elapsed == {-100, 0, 1, 500, 799, 800, 801, 1000, 100000, 100500}

\* send.ts 38-81: the stages between the body and the captcha call, for a
\* body that parses
CallValidate ==
    /\ fn = NoCall
    /\ \E elapsed \in Elapsed, pad \in {<<>>, <<" ">>}, e \in Envs,
          website \in {<<>>, <<" ">>, <<"x">>}, message \in {<<>>, <<"h", "i">>},
          token \in {Undefined, "tok"} :
         LET data == [EmptyData EXCEPT !.ts = pad \o IntChars(now - elapsed),
                                       !.website = website, !.message = message,
                                       !.cf_turnstile_response = token]
         IN  fn' = [op |-> "Validate", elapsed |-> elapsed, data |-> data, e |-> e,
                    out |-> Validate([IdleReq EXCEPT !.pc = "parse", !.id = 1],
                                     TRUE, data, e, now)]
    /\ UNCHANGED <<now, rateKV, idemKV, configKV, dv, rl, idm, env, req, pending, tg, pl>>

\* field values a client can post, each with whether trimming (and, for the
\* handle, removing @, the t.me prefix and trailing slashes) leaves nothing
PlainTexts ==
    { [text |-> <<>>, empty |-> TRUE], [text |-> <<" ">>, empty |-> TRUE],
      [text |-> <<" ", "\t">>, empty |-> TRUE],
      [text |-> <<"x">>, empty |-> FALSE], [text |-> <<" ", "x", " ">>, empty |-> FALSE] }
HandleTexts ==
    { [text |-> <<>>, empty |-> TRUE], [text |-> <<" ">>, empty |-> TRUE],
      [text |-> <<"@">>, empty |-> TRUE], [text |-> <<" ", "@", " ">>, empty |-> TRUE],
      [text |-> HttpsTme, empty |-> TRUE], [text |-> <<"@">> \o HttpTme \o <<"/">>, empty |-> TRUE],
      [text |-> <<"@", "u">>, empty |-> FALSE], [text |-> HttpsTme \o <<"u", "/">>, empty |-> FALSE],
      \* the @ signs go after the trim: a blank is left
      [text |-> <<"@", " ", "@">>, empty |-> FALSE] }

\* send.ts 65-73: sanitization and the empty-payload check, for a request
\* that is past the honeypot and the timing gate
CallPayloadCheck ==
    /\ fn = NoCall
    /\ \E name \in PlainTexts, email \in PlainTexts, message \in PlainTexts,
          telegram \in HandleTexts :
         LET data == [EmptyData EXCEPT !.name = name.text, !.email = email.text,
                                       !.message = message.text,
                                       !.telegram = telegram.text]
         IN  fn' = [op |-> "payloadCheck", name |-> name, email |-> email,
                    message |-> message, telegram |-> telegram,
                    out |-> Validate([IdleReq EXCEPT !.pc = "parse", !.id = 1],
                                     TRUE, data, EnvBase, now)]
    /\ UNCHANGED <<now, rateKV, idemKV, configKV, dv, rl, idm, env, req, pending, tg, pl>>

\* sanitized texts with the escaped form each must be rendered in
ScriptAmp == <<"<", "s", "c", "r", "i", "p", "t", ">", "&">>
EscTexts ==
    { [text |-> <<>>, escaped |-> ""],
      [text |-> <<"x">>, escaped |-> "x"],
      [text |-> ScriptAmp, escaped |-> "&lt;script&gt;&amp;"],
      [text |-> LtEntity, escaped |-> "&amp;lt;"],
      [text |-> <<"a", "&", "&", "b", ">", "<">>, escaped |-> "a&amp;&amp;b&gt;&lt;"] }

\* sanitize.ts 23-47: buildMessageText over sanitized fields and a host
CallBuildMessage ==
    /\ fn = NoCall
    /\ \E name \in EscTexts, email \in EscTexts, telegram \in EscTexts,
          message \in EscTexts, host \in {<<>>, ACo} :
         fn' = [op |-> "buildMessageText", name |-> name, email |-> email,
                telegram |-> telegram, message |-> message, host |-> host,
                lines |-> MessageLines(name.text, email.text, telegram.text,
                                       message.text, host),
                out |-> buildMessageText(name.text, email.text, telegram.text,
                                         message.text, host)]
    /\ UNCHANGED <<now, rateKV, idemKV, configKV, dv, rl, idm, env, req, pending, tg, pl>>

\* ts values a client can post at time t, each with what parseInt makes of
\* it: absent, zero, negative, nan (no number) or positive
TsInputs(t) ==
    { [text |-> <<>>, kind |-> "absent", val |-> 0],
      [text |-> <<"0">>, kind |-> "zero", val |-> 0],
      [text |-> <<"0", "0">>, kind |-> "zero", val |-> 0],
      [text |-> <<"-", "0">>, kind |-> "zero", val |-> 0],
      [text |-> <<"-", "5">>, kind |-> "negative", val |-> -5],
      [text |-> IntChars(100 - t), kind |-> "negative", val |-> 100 - t],
      [text |-> <<"a", "b", "c">>, kind |-> "nan", val |-> 0],
      [text |-> <<" ">>, kind |-> "nan", val |-> 0],
      [text |-> <<"-">>, kind |-> "nan", val |-> 0],
      [text |-> <<"x">> \o IntChars(t - 100), kind |-> "nan", val |-> 0],
      [text |-> <<"1">>, kind |-> "positive", val |-> 1],
      [text |-> <<"+">> \o IntChars(t - 100), kind |-> "positive", val |-> t - 100],
      [text |-> IntChars(t - 100) \o <<"x">>, kind |-> "positive", val |-> t - 100],
      [text |-> IntChars(t - 900), kind |-> "positive", val |-> t - 900],
      [text |-> IntChars(t + 100), kind |-> "positive", val |-> t + 100] }

\* send.ts 55-63: the timing gate of a body with a message and no honeypot
CallTimingGate ==
    /\ fn = NoCall
    /\ \E ts \in TsInputs(now), website \in {<<>>, <<"x">>},
          message \in {<<>>, <<"h", "i">>} :
         LET data == [EmptyData EXCEPT !.ts = ts.text, !.website = website,
                                       !.message = message]
         IN  fn' = [op |-> "TimingGate", ts |-> ts, data |-> data,
                    out |-> Validate([IdleReq EXCEPT !.pc = "parse", !.id = 1],
                                     TRUE, data, EnvBase, now)]
    /\ UNCHANGED <<now, rateKV, idemKV, configKV, dv, rl, idm, env, req, pending, tg, pl>>

NextCalls ==
    \/ CallTimingGate
    \/ CallGetRouting
    \/ CallMatchOrigin
    \/ CallOriginCheck
    \/ CallValidate
    \/ CallPayloadCheck
    \/ CallBuildMessage

SpecCalls == InitCalls /\ [][NextCalls]_vars

----------------------------------------------------------------------------
(* Concurrent pipeline specification: two requests in flight at once, their *)
(* awaits interleaved in every order, against chats that are not upgraded.  *)

MaxTwinRequests == 2
MaxTwinInFlight == 2

InitTwins == InitPipeline({EnvBase}, MaxTwinRequests, MaxTwinInFlight, 0)

NextTwins ==
    \E r \in Slots :
        \/ Arrive(r) \/ RateGet(r) \/ RatePut(r) \/ Parse(r)
        \/ IdemGet(r) \/ IdemPut(r) \/ Routing(r) \/ Send(r)

SpecTwins == InitTwins /\ [][NextTwins]_vars

----------------------------------------------------------------------------
(* Concurrent rate-limiter specification: isRateLimited calls whose awaits  *)
(* interleave. A call reads Date.now() when it starts (line 15), then its   *)
(* kv.get resolves (line 17, followed by lines 18-27), then its kv.put      *)
(* resolves (line 33).                                                      *)
(*   rl.calls[c]: the locals of call c and what it observed                 *)
(*   rl.ver[key]: how many writes the key has received                      *)

MaxRaceCalls == 3
MaxRaceTicks == 2
RaceCalls == 1..MaxRaceCalls

RateKeys == {RateKey(ip) : ip \in Ips}

\* a call that has not started
IdleCall ==
    [pc |-> "idle", ip |-> "", key |-> "", now |-> 0, raw |-> <<>>, pruned |-> <<>>,
     limited |-> FALSE, written |-> <<>>, readVer |-> 0, writeVer |-> 0]

InitRace ==
    /\ now = 0
    /\ rateKV = EmptyKV /\ idemKV = EmptyKV /\ configKV = EmptyKV
    /\ dv = NoDelivery /\ idm = NoIdemCalls
    /\ NoPipeline
    /\ \E l \in 1..MaxLimit :
         rl = [limit |-> l, ticks |-> 0, started |-> 0,
               ver |-> [k \in RateKeys |-> 0],
               calls |-> [c \in RaceCalls |-> IdleCall]]

\* lines 14-15: the key and Date.now(); the kv.get is issued
RaceStart(ip) ==
    /\ rl.started < MaxRaceCalls
    /\ rl' = [rl EXCEPT !.started = @ + 1,
                        !.calls[rl.started + 1] =
                            [IdleCall EXCEPT !.pc = "get", !.ip = ip, !.key = RateKey(ip),
                                             !.now = now]]
    /\ UNCHANGED <<now, rateKV, idemKV, configKV, dv, idm, env, req, pending, tg, pl, fn>>

\* lines 17-27: the kv.get resolves; parse, prune, check the limit
RaceGet(c) ==
    /\ rl.calls[c].pc = "get"
    /\ LET call    == rl.calls[c]
           raw     == RateEntry(rateKV, call.ip, now).timestamps
           pruned  == Prune(raw, call.now)
           limited == OverLimit(pruned, rl.limit)
       IN  rl' = [rl EXCEPT !.calls[c] =
                     [call EXCEPT !.pc = IF limited THEN "done" ELSE "put",
                                  !.raw = raw, !.pruned = pruned, !.limited = limited,
                                  !.readVer = rl.ver[call.key]]]
    /\ UNCHANGED <<now, rateKV, idemKV, configKV, dv, idm, env, req, pending, tg, pl, fn>>

\* lines 30-35: the kv.put resolves; return false
RacePut(c) ==
    /\ rl.calls[c].pc = "put"
    /\ LET call == rl.calls[c]
           kv   == RateWriteBack(rateKV, call.ip, call.pruned, FALSE, call.now, now)
       IN  /\ rateKV' = kv
           /\ rl' = [rl EXCEPT !.ver[call.key] = @ + 1,
                               !.calls[c] =
                                   [call EXCEPT !.pc = "done",
                                                !.writeVer = rl.ver[call.key] + 1,
                                                !.written =
                                                    IF call.key \in DOMAIN kv
                                                      THEN JsonParse(kv[call.key].val).timestamps
                                                      ELSE <<>>]]
    /\ UNCHANGED <<now, idemKV, configKV, dv, idm, env, req, pending, tg, pl, fn>>

RaceTick(d) ==
    /\ rl.ticks < MaxRaceTicks
    /\ now' = now + d
    /\ rl' = [rl EXCEPT !.ticks = @ + 1]
    /\ UNCHANGED <<rateKV, idemKV, configKV, dv, idm, env, req, pending, tg, pl, fn>>

NextRace ==
    \/ \E ip \in Ips : RaceStart(ip)
    \/ \E c \in RaceCalls : RaceGet(c)
    \/ \E c \in RaceCalls : RacePut(c)
    \/ \E d \in RateTicks : RaceTick(d)

SpecRace == InitRace /\ [][NextRace]_vars

----------------------------------------------------------------------------
(* Concurrent idempotency specification: isDuplicate calls whose awaits     *)
(* interleave. A call starts (line 11), its kv.get resolves (lines 14-18),  *)
(* then its kv.put resolves (lines 21-23).                                  *)
(*   idm.calls[c]: the locals of call c                                     *)

MaxGuardCalls == 3
MaxGuardTicks == 2
GuardCalls == 1..MaxGuardCalls

IdleGuardCall == [pc |-> "idle", token |-> "", duplicate |-> FALSE]

InitGuard ==
    /\ now = 0
    /\ rateKV = EmptyKV /\ idemKV = EmptyKV /\ configKV = EmptyKV
    /\ dv = NoDelivery /\ rl = NoRateCalls
    /\ NoPipeline
    /\ idm = [ticks |-> 0, started |-> 0, calls |-> [c \in GuardCalls |-> IdleGuardCall]]

\* lines 11-14: an empty token returns false at once, otherwise the kv.get
\* is issued
GuardStart(token) ==
    /\ idm.started < MaxGuardCalls
    /\ idm' = [idm EXCEPT !.started = @ + 1,
                          !.calls[idm.started + 1] =
                              [pc |-> IF Truthy(token) THEN "get" ELSE "done",
                               token |-> token, duplicate |-> FALSE]]
    /\ UNCHANGED <<now, rateKV, idemKV, configKV, dv, rl, env, req, pending, tg, pl, fn>>

\* lines 14-18: the kv.get resolves
GuardGet(c) ==
    /\ idm.calls[c].pc = "get"
    /\ LET seen == IdemSeen(idemKV, idm.calls[c].token, now)
       IN  idm' = [idm EXCEPT !.calls[c].pc = IF seen THEN "done" ELSE "put",
                              !.calls[c].duplicate = seen]
    /\ UNCHANGED <<now, rateKV, idemKV, configKV, dv, rl, env, req, pending, tg, pl, fn>>

\* lines 21-23: the kv.put resolves
GuardPut(c) ==
    /\ idm.calls[c].pc = "put"
    /\ idemKV' = IdemMark(idemKV, idm.calls[c].token, now)
    /\ idm' = [idm EXCEPT !.calls[c].pc = "done"]
    /\ UNCHANGED <<now, rateKV, configKV, dv, rl, env, req, pending, tg, pl, fn>>

GuardTick(d) ==
    /\ idm.ticks < MaxGuardTicks
    /\ now' = now + d
    /\ idm' = [idm EXCEPT !.ticks = @ + 1]
    /\ UNCHANGED <<rateKV, idemKV, configKV, dv, rl, env, req, pending, tg, pl, fn>>

NextGuard ==
    \/ \E token \in Tokens : GuardStart(token)
    \/ \E c \in GuardCalls : GuardGet(c)
    \/ \E c \in GuardCalls : GuardPut(c)
    \/ \E d \in IdemTicks : GuardTick(d)

SpecGuard == InitGuard /\ [][NextGuard]_vars

----------------------------------------------------------------------------
(* handlers/admin.ts and utils/cors.ts *)

\* an Origin header that is not empty and that new URL() cannot parse
BadOrigin == [valid |-> FALSE, hostname |-> <<"?">>]

\* c.header("Access-Control-Allow-Origin", origin), or the header left unset
Header(set, value) == [set |-> set, value |-> IF set THEN value ELSE NoOrigin]

\* mutant: the header echoes every origin that is sent
corsMiddlewareEchoAll(origin, method, configKv, envValue, t) ==
    [allowOrigin |-> Header(origin # NoOrigin, origin),
     answered    |-> method = "OPTIONS",
     status      |-> IF method = "OPTIONS" THEN 204 ELSE 0]

\* cors.ts 12-26: the Access-Control-Allow-Origin header the middleware sets
\* and whether it answers the request itself
corsMiddleware(origin, method, configKv, envValue, t) ==
    LET host           == normalizeHost(origin)
        allowedOrigins == getAllowedOrigins(configKv, envValue, t)
    IN  [allowOrigin |-> Header(origin # NoOrigin /\ matchOrigin(host, allowedOrigins),
                                origin),
         answered    |-> method = "OPTIONS",
         status      |-> IF method = "OPTIONS" THEN 204 ELSE 0]

\* the JSON answers of the admin handlers; Null: no answer (requireAdmin
\* returns null)
AdminError(error, status) ==
    [status |-> status, st |-> "error", error |-> error, origins |-> Undefined,
     message |-> Undefined]
AdminOk(origins, message) ==
    [status |-> 200, st |-> "ok", error |-> Undefined, origins |-> origins,
     message |-> message]

Null == AdminError(Undefined, 0)

\* mutant: any key that is provided is accepted
requireAdminAnyKey(adminKey, providedKey) ==
    IF ~Truthy(adminKey) THEN AdminError("admin_not_configured", 503)
    ELSE IF ~Truthy(providedKey) THEN AdminError("unauthorized", 401)
    ELSE Null

\* requireAdmin(c): the error answer, or null
requireAdmin(adminKey, providedKey) ==
    IF ~Truthy(adminKey) THEN AdminError("admin_not_configured", 503)
    ELSE IF ~Truthy(providedKey) \/ providedKey # adminKey
      THEN AdminError("unauthorized", 401)
    ELSE Null

\* getOriginsConfig(kv): null when there is no document or JSON.parse throws
getOriginsConfig(kv, t) ==
    IF ~KvLive(kv, OriginsKey, t) THEN [null |-> TRUE, patterns |-> <<>>]
    ELSE IF kv[OriginsKey].val.corrupt THEN [null |-> TRUE, patterns |-> <<>>]
    ELSE [null |-> FALSE, patterns |-> kv[OriginsKey].val.patterns]

\* JSON.stringify(config) as getAllowedOrigins and getOriginsConfig read it
OriginsDoc(patterns, t) == [corrupt |-> FALSE, patterns |-> patterns, updatedAt |-> t]

\* indexOf / splice(index, 1): the sequence without its first occurrence of x
RECURSIVE RemoveFirst(_, _)
RemoveFirst(items, x) ==
    IF items = <<>> THEN <<>>
    ELSE IF Head(items) = x THEN Tail(items)
    ELSE <<Head(items)>> \o RemoveFirst(Tail(items), x)

Includes(items, x) == \E i \in 1..Len(items) : items[i] = x

\* listOrigins(c): the answer and the store reads made
listOrigins(e, providedKey, kv, t) ==
    LET authError == requireAdmin(e.ADMIN_KEY, providedKey)
        config    == getOriginsConfig(kv, t)
    IN  IF authError # Null THEN [resp |-> authError, kv |-> kv, reads |-> 0]
        ELSE [resp |-> [AdminOk(Undefined, Undefined) EXCEPT
                           !.origins = [dynamic |-> IF config.null THEN <<>>
                                                    ELSE config.patterns,
                                        env |-> parseAllowedOrigins(e.ALLOWED_ORIGINS)]],
              kv |-> kv, reads |-> 1]

\* replaceOrigins(c); body is [parses, array, patterns]: parses is FALSE when
\* c.req.json() throws (the framework answers 500), array is FALSE when
\* body.patterns is no array; the patterns are normalized as the pieces of
\* ALLOWED_ORIGINS are
replaceOrigins(e, providedKey, body, kv, t) ==
    LET authError == requireAdmin(e.ADMIN_KEY, providedKey)
        patterns  == parseAllowedOrigins(body.patterns)
    IN  IF authError # Null THEN [resp |-> authError, kv |-> kv, reads |-> 0]
        ELSE IF ~body.parses
          THEN [resp |-> AdminError("exception", 500), kv |-> kv, reads |-> 0]
        ELSE IF ~body.array
          THEN [resp |-> AdminError("invalid_payload", 400), kv |-> kv, reads |-> 0]
        ELSE [resp |-> AdminOk(patterns, Undefined),
              kv |-> KvPutForever(kv, OriginsKey, OriginsDoc(patterns, t)), reads |-> 0]

\* addOrigin(c)
addOrigin(e, providedKey, rawPattern, kv, t) ==
    LET authError == requireAdmin(e.ADMIN_KEY, providedKey)
        pattern   == ToLowerCase(Trim(rawPattern))
        found     == getOriginsConfig(kv, t)
        patterns  == IF found.null THEN <<>> ELSE found.patterns
    IN  IF authError # Null THEN [resp |-> authError, kv |-> kv, reads |-> 0]
        ELSE IF pattern = <<>>
          THEN [resp |-> AdminError("invalid_pattern", 400), kv |-> kv, reads |-> 0]
        ELSE IF Includes(patterns, pattern)
          THEN [resp |-> AdminOk(patterns, "already_exists"), kv |-> kv, reads |-> 1]
        ELSE [resp |-> AdminOk(Append(patterns, pattern), Undefined),
              kv |-> KvPutForever(kv, OriginsKey,
                                  OriginsDoc(Append(patterns, pattern), t)),
              reads |-> 1]

\* removeOrigin(c)
removeOrigin(e, providedKey, rawPattern, kv, t) ==
    LET authError == requireAdmin(e.ADMIN_KEY, providedKey)
        pattern   == ToLowerCase(rawPattern)
        config    == getOriginsConfig(kv, t)
    IN  IF authError # Null THEN [resp |-> authError, kv |-> kv, reads |-> 0]
        ELSE IF pattern = <<>>
          THEN [resp |-> AdminError("invalid_pattern", 400), kv |-> kv, reads |-> 0]
        ELSE IF config.null
          THEN [resp |-> AdminError("not_found", 404), kv |-> kv, reads |-> 1]
        ELSE IF ~Includes(config.patterns, pattern)
          THEN [resp |-> AdminError("not_found", 404), kv |-> kv, reads |-> 1]
        ELSE LET left == RemoveFirst(config.patterns, pattern)
             IN  [resp |-> AdminOk(left, Undefined),
                  kv |-> KvPutForever(kv, OriginsKey, OriginsDoc(left, t)),
                  reads |-> 1]

\* index.ts 16-29: the middleware, then the route of the method and path.
\* rq is [method, path, origin, key, body, pattern, readFails]; of POST /send
\* the origin check (send.ts 14-28) is taken, readFails is a CONFIG read of
\* getAllowedOrigins that throws (origin.ts 71-75)
App(rq, e, kv, t) ==
    LET mw == corsMiddleware(rq.origin, rq.method, kv, e.ALLOWED_ORIGINS, t)
        quiet(handler, resp) ==
            [handler |-> handler, resp |-> resp, kv |-> kv, reads |-> 0,
             allowOrigin |-> mw.allowOrigin, allowed |-> <<>>]
        admin(handler, res) ==
            [handler |-> handler, resp |-> res.resp, kv |-> res.kv, reads |-> res.reads,
             allowOrigin |-> mw.allowOrigin, allowed |-> <<>>]
    IN  IF mw.answered THEN quiet("none", AdminError(Undefined, mw.status))
        ELSE IF rq.method = "POST" /\ rq.path = "/send"
          THEN LET allowedOrigins ==
                       IF rq.readFails THEN parseAllowedOrigins(e.ALLOWED_ORIGINS)
                       ELSE getAllowedOrigins(kv, e.ALLOWED_ORIGINS, t)
                   ok == matchOrigin(normalizeHost(rq.origin), allowedOrigins)
               IN  [quiet("sendHandler",
                          IF ok THEN AdminOk(Undefined, Undefined)
                          ELSE AdminError("origin_not_allowed", 403))
                      EXCEPT !.allowed = allowedOrigins]
        ELSE IF rq.method = "GET" /\ rq.path = "/health"
          THEN quiet("healthHandler", AdminOk(Undefined, Undefined))
        ELSE IF rq.method = "GET" /\ rq.path = "/admin/origins"
          THEN admin("listOrigins", listOrigins(e, rq.key, kv, t))
        ELSE IF rq.method = "PUT" /\ rq.path = "/admin/origins"
          THEN admin("replaceOrigins", replaceOrigins(e, rq.key, rq.body, kv, t))
        ELSE IF rq.method = "POST" /\ rq.path = "/admin/origins"
          THEN admin("addOrigin",
                     IF rq.body.parses
                       THEN addOrigin(e, rq.key, rq.pattern, kv, t)
                       ELSE [resp |-> IF requireAdmin(e.ADMIN_KEY, rq.key) # Null
                                        THEN requireAdmin(e.ADMIN_KEY, rq.key)
                                        ELSE AdminError("exception", 500),
                             kv |-> kv, reads |-> 0])
        ELSE IF rq.method = "DELETE" /\ rq.path = "/admin/origins/:pattern"
          THEN admin("removeOrigin", removeOrigin(e, rq.key, rq.pattern, kv, t))
        ELSE quiet("notFound", AdminError("not_found", 404))

----------------------------------------------------------------------------
(* Administration specification: admin operations, preflights and origin   *)
(* checks of POST /send, one request at a time.                            *)
(*   fn:         the latest request and its answer                         *)
(*   pl.dynamic: the dynamic patterns the latest completed change was      *)
(*               answered with                                             *)

MaxAdminRequests == 3

AdminEnvs ==
    [ALLOWED_ORIGINS : {<<>>, <<BCo>>}, ADMIN_KEY : {Undefined, "", "secret"}]

AdminKeys == {Undefined, "", "wrong", "secret"}
AdminOrigins == {NoOrigin, BadOrigin, OriginOf(ACo), OriginOf(WwwDot \o BCo)}
AdminPatterns == {<<>>, ACo, <<"A", ".", "c", "o">>, Star}
AdminBodies ==
    { [parses |-> FALSE, array |-> FALSE, patterns |-> <<>>],
      [parses |-> TRUE, array |-> FALSE, patterns |-> <<>>],
      [parses |-> TRUE, array |-> TRUE, patterns |-> <<>>],
      [parses |-> TRUE, array |-> TRUE, patterns |-> <<<<" ", "A", ".", "c", "o">>>>],
      [parses |-> TRUE, array |-> TRUE, patterns |-> <<ACo, Star>>] }

PlainRequest ==
    [method |-> "GET", path |-> "/health", origin |-> NoOrigin, key |-> Undefined,
     body |-> [parses |-> TRUE, array |-> FALSE, patterns |-> <<>>],
     pattern |-> <<>>, readFails |-> FALSE]

\* the stored document the deployment starts with: none, one that does not
\* parse, or one of an earlier administration
InitAdmin ==
    /\ now = 100000
    /\ rateKV = EmptyKV /\ idemKV = EmptyKV
    /\ dv = NoDelivery /\ rl = NoRateCalls /\ idm = NoIdemCalls
    /\ req = <<>> /\ pending = {}
    /\ tg = [migrated |-> <<>>, delivered |-> {}, learned |-> {}]
    /\ env \in AdminEnvs
    /\ configKV \in
         { EmptyKV,
           KvPutForever(EmptyKV, OriginsKey,
                        [corrupt |-> TRUE, patterns |-> <<>>, updatedAt |-> 0]),
           KvPutForever(EmptyKV, OriginsKey, OriginsDoc(<<ACo>>, 0)) }
    /\ pl = [n |-> 0, dynamic |-> getOriginsConfig(configKV, now).patterns]
    /\ fn = [op |-> "none"]

\* one request through the app
Serve(rq) ==
    /\ pl.n < MaxAdminRequests
    /\ LET res == App(rq, env, configKV, now)
       IN  /\ configKV' = res.kv
           /\ fn' = [op |-> res.handler, rq |-> rq, resp |-> res.resp,
                     reads |-> res.reads, allowOrigin |-> res.allowOrigin,
                     allowed |-> res.allowed]
           /\ pl' = [pl EXCEPT !.n = @ + 1,
                               !.dynamic = IF res.kv # configKV
                                             THEN res.resp.origins ELSE @]
    /\ UNCHANGED <<now, rateKV, idemKV, dv, rl, idm, env, req, pending, tg>>

AdmList ==
    \E key \in AdminKeys, origin \in {NoOrigin, OriginOf(ACo)} :
        Serve([PlainRequest EXCEPT !.path = "/admin/origins", !.key = key,
                                   !.origin = origin])

AdmReplace ==
    \E key \in AdminKeys, body \in AdminBodies :
        Serve([PlainRequest EXCEPT !.method = "PUT", !.path = "/admin/origins",
                                   !.key = key, !.body = body])

AdmAdd ==
    \E key \in AdminKeys, pattern \in AdminPatterns :
      \E parses \in IF pattern = <<>> THEN BOOLEAN ELSE {TRUE} :
        Serve([PlainRequest EXCEPT !.method = "POST", !.path = "/admin/origins",
                                   !.key = key, !.pattern = pattern,
                                   !.body.parses = parses])

AdmRemove ==
    \E key \in AdminKeys, pattern \in AdminPatterns :
        Serve([PlainRequest EXCEPT !.method = "DELETE",
                                   !.path = "/admin/origins/:pattern",
                                   !.key = key, !.pattern = pattern])

Preflight ==
    \E path \in {"/send", "/admin/origins"}, origin \in AdminOrigins :
        Serve([PlainRequest EXCEPT !.method = "OPTIONS", !.path = path,
                                   !.origin = origin, !.key = "secret"])

Admit ==
    \E origin \in AdminOrigins, readFails \in BOOLEAN :
        Serve([PlainRequest EXCEPT !.method = "POST", !.path = "/send",
                                   !.origin = origin, !.readFails = readFails])

Other ==
    \E rq \in {PlainRequest, [PlainRequest EXCEPT !.path = "/nowhere"]},
       origin \in AdminOrigins :
        Serve([rq EXCEPT !.origin = origin])

NextAdmin ==
    \/ AdmList \/ AdmReplace \/ AdmAdd \/ AdmRemove
    \/ Preflight \/ Admit \/ Other

SpecAdmin == InitAdmin /\ [][NextAdmin]_vars

----------------------------------------------------------------------------
(* Claims about the delivery service (SpecDelivery) *)

\* number of upstream answers of a delivery that are failures other than a
\* migration signal
NumFailures(rs) == Cardinality({i \in 1..Len(rs) : IsFailure(rs[i])})
NumMigrations(rs) == Cardinality({i \in 1..Len(rs) : IsMigration(rs[i])})

DvDone == dv.pc = "done"

\* C2: a migration signal consumes no retry-budget slot: a delivery returns
\* failure only after MAX_RETRIES failure-counted attempts, whatever number of
\* migration redirects it met (so [migrate, fail, fail, ok] would end in
\* success).
C2_MigrationKeepsBudget ==
    (DvDone /\ ~dv.result.success) => NumFailures(dv.responses) = MAX_RETRIES

\* C10: a successful delivery reports a migrated identifier exactly when the
\* identifier of the send that succeeded differs from the identifier passed
\* in, the reported value is that identifier, and without a migration signal
\* nothing is reported.
C10_MigratedReported ==
    (DvDone /\ dv.result.success) =>
        LET target == dv.sends[Len(dv.sends)]
        IN  /\ (dv.result.migrated_chat_id # Undefined) <=> (target # dv.chatId)
            /\ dv.result.migrated_chat_id # Undefined
                  => dv.result.migrated_chat_id = target
            /\ NumMigrations(dv.responses) = 0
                  => dv.result.migrated_chat_id = Undefined

\* C10 witness: a delivery that succeeded on a replacement identifier
C10_Witness ==
    /\ DvDone /\ dv.result.success
    /\ NumMigrations(dv.responses) > 0
    /\ dv.result.migrated_chat_id # Undefined
    /\ dv.result.migrated_chat_id # dv.chatId

----------------------------------------------------------------------------
(* Claims about the rate limiter (SpecRate) *)

\* the time, in ms, at which a stored key expires
KvExpiry(kv, key) == kv[key].exp.s * 1000 + kv[key].exp.ms

\* accepted calls of the latest call's identifier made before that call
RlPrior ==
    LET a == rl.accepted[rl.last.ip]
    IN  IF rl.last.limited THEN a ELSE SubSeq(a, 1, Len(a) - 1)

\* how many of the calls at `times` lie fewer than `span` ms before t
Within(times, t, span) == Cardinality({i \in 1..Len(times) : t - times[i] < span})

\* C4: a call is rejected exactly when limitPerMinute earlier accepted calls
\* of its identifier lie within the 60 s before it; a call made 60,000 ms or
\* more after the oldest of them is accepted again.
C4_SlidingWindow ==
    rl.n > 0 =>
        (rl.last.limited <=> Within(RlPrior, rl.last.t, 60000) >= rl.limit)

\* C4 witness: a call accepted exactly 60,000 ms after the oldest call that
\* had filled the window
C4_Witness ==
    /\ rl.n > 0 /\ ~rl.last.limited
    /\ Within(RlPrior, rl.last.t, 60001) >= rl.limit
    /\ \E i \in 1..Len(RlPrior) : rl.last.t - RlPrior[i] = 60000

\* C5: a rejected call leaves the rate-limit store as it was: no entry is
\* rewritten and no expiry renewed.
C5_RejectedWritesNothing ==
    [][(rl'.n = rl.n + 1 /\ rl'.last.limited) => rateKV' = rateKV]_vars

\* C5 witness: a rejected call made while the entry is live, later than the
\* write that stored it
C5_Witness ==
    /\ rl.n > 0 /\ rl.last.limited
    /\ KvLive(rateKV, RateKey(rl.last.ip), rl.last.t)
    /\ KvExpiry(rateKV, RateKey(rl.last.ip)) < rl.last.t + 60000

----------------------------------------------------------------------------
(* Claims about the idempotency guard (SpecIdem) *)

\* C6: the first call of a non-empty token answers not-duplicate and writes a
\* marker expiring 300 s later; a call fewer than 300 s after the latest
\* not-duplicate answer of its token answers duplicate and writes nothing;
\* a call 300 s or more after it answers not-duplicate again; an empty token
\* answers not-duplicate and makes no store operation.
C6_IdempotencyWindow ==
    [][idm'.n = idm.n + 1 =>
        LET c     == idm'.last
            prior == idm.fresh[c.token]
        IN  IF c.token = ""
              THEN ~c.duplicate /\ c.ops = <<>> /\ idemKV' = idemKV
              ELSE /\ c.duplicate <=> Within(prior, c.t, 300000) > 0
                   /\ c.duplicate => idemKV' = idemKV
                   /\ ~c.duplicate =>
                        /\ KvGet(idemKV', IdemKey(c.token), c.t) # Undefined
                        /\ KvExpiry(idemKV', IdemKey(c.token)) = c.t + 300000
    ]_vars

\* C6 witness: a token answered not-duplicate a second time, exactly 300 s
\* after its first not-duplicate answer
C6_Witness ==
    /\ idm.n > 0 /\ idm.last.token # "" /\ ~idm.last.duplicate
    /\ LET f == idm.fresh[idm.last.token]
       IN  Len(f) >= 2 /\ f[Len(f)] - f[Len(f) - 1] = 300000

----------------------------------------------------------------------------
(* Claims about the request pipeline (Spec, SpecMigration) *)

\* the stages and outside calls of sendHandler in the order of its text
Stages ==
    <<"origin", "rate_get", "rate_put", "parse", "honeypot", "timing", "empty",
      "captcha", "captcha_call", "idem_get", "idem_put", "routing", "send",
      "cache_put">>
Rank(x) == CHOOSE i \in 1..Len(Stages) : Stages[i] = x
Labels(fx) == {fx[i] : i \in 1..Len(fx)}

\* every label comes after the labels of the earlier stages; only the
\* outbound send repeats
InOrder(fx) ==
    \A i \in 1..(Len(fx) - 1) :
        \/ Rank(fx[i]) < Rank(fx[i + 1])
        \/ fx[i] = "send" /\ fx[i + 1] = "send"

\* the stages no request gets past without running them; the captcha stage
\* is one of them exactly when it is enabled
Gates(e) ==
    {"origin", "rate_get", "rate_put", "parse", "honeypot", "timing", "empty",
     "idem_get", "idem_put", "routing", "send"}
      \cup (IF e.ENABLE_TURNSTILE = "true" THEN {"captcha", "captcha_call"} ELSE {})
NoneSkipped(fx, e) ==
    /\ \A x \in Labels(fx) :
         \A g \in Gates(e) : Rank(g) < Rank(x) => g \in Labels(fx)
    /\ e.ENABLE_TURNSTILE # "true" => Labels(fx) \cap {"captcha", "captcha_call"} = {}

\* C1: for every POST /send request the stages run in the fixed order origin,
\* rate limit, body parse and honeypot, timing gate, empty-payload check,
\* captcha (if enabled), idempotency guard, routing, delivery; once the
\* request has its terminal response it performs nothing more, and with no
\* request in flight the rate-limit store, the idempotency store and the
\* delivered messages stay as they are.
C1_StagesInOrder ==
    [][ /\ \A r \in Slots :
             /\ InOrder(req'[r].fx)
             /\ NoneSkipped(req'[r].fx, env)
             /\ (req[r].resp.status # 0 /\ req'[r].id = req[r].id)
                   => (req'[r].fx = req[r].fx /\ req'[r].resp = req[r].resp)
        /\ (\A r \in Slots : req[r].resp.status # 0 \/ req[r].pc = "idle")
              => (rateKV' = rateKV /\ idemKV' = idemKV /\ tg'.delivered = tg.delivered)
      ]_vars

\* a request stopped by the timing gate after an earlier one was delivered
C1_Witness ==
    \E r \in Slots :
        /\ req[r].pc = "done" /\ req[r].resp.error = "too_fast"
        /\ req[r].fx = <<"origin", "rate_get", "rate_put", "parse", "honeypot", "timing">>
        /\ tg.delivered # {}

\* C3: whenever POST /send answers status ok for a submission that is not a
\* honeypot hit, the duplicate answer included, the messaging API has
\* accepted the message of that idempotency token at least once.
C3_OkMeansDelivered ==
    \A r \in Slots :
        (req[r].resp.status = 200 /\ req[r].resp.st = "ok" /\ ~req[r].obs.websiteFilled)
            => \E m \in tg.delivered : m.key = req[r].key

\* the calls that belong to the stages after the honeypot check
AfterHoneypot == {"captcha_call", "idem_get", "idem_put", "routing", "send", "cache_put"}

\* C7: a request past the origin and rate-limit gates whose website field is
\* non-empty after trimming is answered 200 {status: ok} with no error and
\* makes no captcha call, no idempotency read or write, no routing lookup
\* and no outbound send, whatever else it carries.
C7_HoneypotSilentOk ==
    \A r \in Slots :
        req[r].obs.websiteFilled =>
            /\ req[r].pc = "done"
            /\ req[r].resp = [NoResp EXCEPT !.status = 200, !.st = "ok"]
            /\ Labels(req[r].fx) \cap AfterHoneypot = {}

\* a honeypot hit under a deployment with captcha enabled
C7_Witness ==
    \E r \in Slots :
        /\ req[r].obs.websiteFilled /\ req[r].pc = "done"
        /\ env.ENABLE_TURNSTILE = "true"

\* C8: a request whose idempotency token is already marked is answered 200
\* with status ok, duplicate: true and request_id equal to the token, and
\* makes no routing lookup, no outbound send and no migration-cache write.
C8_DuplicateShortCircuits ==
    \A r \in Slots :
        req[r].obs.marked =>
            /\ req[r].pc = "done"
            /\ req[r].resp = DuplicateResponse(req[r].key)
            /\ req[r].resp.request_id = req[r].key
            /\ Labels(req[r].fx) \cap {"routing", "send", "cache_put"} = {}
            /\ \A w \in pending : w.id # req[r].id

\* a second request found the marker the first one wrote
C8_Witness ==
    \E r \in Slots :
        /\ req[r].obs.marked /\ req[r].pc = "done" /\ req[r].id = 2
        /\ req[r].resp.duplicate

\* C9: once the redirects of a configured chat have been followed by
\* successful deliveries whose migration-cache writes have completed, every
\* later request for that chat sends its first attempt to the current
\* identifier of the chat.
C9_CachedSkipsRedirect ==
    \A r \in Slots :
        (req[r].obs.settled /\ req[r].obs.first # "")
            => req[r].obs.first = req[r].obs.current

\* the outcome a response of the handler carries
Outcome(resp) ==
    IF resp.st = "ok" THEN (IF resp.duplicate THEN "duplicate" ELSE "ok") ELSE resp.error

\* the outcomes and their HTTP statuses as documented
DocumentedPairs ==
    { <<"ok", 200>>, <<"duplicate", 200>>, <<"too_fast", 400>>, <<"empty_payload", 400>>,
      <<"captcha_failed", 400>>, <<"origin_not_allowed", 403>>, <<"rate_limited", 429>>,
      <<"routing_not_configured", 500>>, <<"telegram_send_failed", 502>> }

\* C11: every response sendHandler returns pairs its outcome with the
\* documented HTTP status: ok and duplicate with 200, too_fast, empty_payload
\* and captcha_failed with 400, origin_not_allowed with 403, rate_limited
\* with 429, routing_not_configured with 500, telegram_send_failed with 502,
\* and no other pair.
C11_OutcomeStatusPairs ==
    \A r \in Slots :
        req[r].resp.st \in {"ok", "error"}
            => <<Outcome(req[r].resp), req[r].resp.status>> \in DocumentedPairs

\* a delivery failure was answered
C11_Witness ==
    \E r \in Slots :
        /\ req[r].pc = "done" /\ req[r].resp.error = "telegram_send_failed"
        /\ req[r].resp.status = 502

\* the documented stable error codes
StableCodes ==
    {"origin_not_allowed", "rate_limited", "too_fast", "empty_payload", "captcha_failed",
     "telegram_send_failed", "routing_not_configured"}

\* C12: every request that does not succeed ends in a JSON response that
\* carries one of the documented stable error codes.
C12_FailuresCarryCode ==
    \A r \in Slots :
        req[r].pc = "done"
            => \/ req[r].resp.st = "ok"
               \/ req[r].resp.st = "error" /\ req[r].resp.error \in StableCodes

\* the error text one failed attempt leaves
AttemptError(a) ==
    IF a.thrown THEN a.message
    ELSE IF a.description # "" THEN a.description
    ELSE HttpText(a.status)

\* C13: with no migration signal a delivery makes at most 3 outbound send
\* calls, stops at the first success and returns failure only after 3 failed
\* attempts; the request is then answered 502 telegram_send_failed with the
\* error of the last attempt as detail, and no migration-cache write is
\* issued.
C13_ThreeAttemptsThen502 ==
    \A r \in Slots :
        /\ NumMigrations(req[r].d.responses) = 0 => Len(req[r].d.sends) <= 3
        /\ LET d == req[r].obs.delivery
               n == Len(d.responses)
           IN  (d.pc = "done" /\ NumMigrations(d.responses) = 0) =>
                  /\ n = Len(d.sends) /\ n \in 1..3
                  /\ \A i \in 1..(n - 1) : IsFailure(d.responses[i])
                  /\ d.result.success <=> ~IsFailure(d.responses[n])
                  /\ ~d.result.success =>
                        /\ n = 3
                        /\ req[r].resp =
                             [jsonError("telegram_send_failed", 502) EXCEPT
                                 !.detail = AttemptError(d.responses[3])]
                        /\ "cache_put" \notin Labels(req[r].fx)
                        /\ \A w \in pending : w.id # req[r].id

\* a delivery failed on three attempts whose errors differ
C13_Witness ==
    \E r \in Slots :
        LET d == req[r].obs.delivery
        IN  /\ d.pc = "done" /\ ~d.result.success /\ NumMigrations(d.responses) = 0
            /\ AttemptError(d.responses[1]) # AttemptError(d.responses[3])
            /\ req[r].resp.status = 502

\* the request has left the captcha stage without being rejected by it
PastCaptcha(rq) ==
    /\ rq.pc \notin {"idle", "rate_get", "rate_put", "parse", "captcha"}
    /\ Labels(rq.fx) \cap {"empty"} # {}
    /\ rq.resp.error \notin {"empty_payload", "captcha_failed"}

\* how many times the request called the verification endpoint
CaptchaCalls(rq) == Cardinality({i \in 1..Len(rq.fx) : rq.fx[i] = "captcha_call"})

\* C14: with captcha verification enabled a request passes the captcha stage
\* only if the verification endpoint answered success = true for its
\* non-empty token under a non-empty secret, every other case is answered
\* captcha_failed, the endpoint is called at most once per request, and it is
\* never called when verification is disabled.
C14_CaptchaFailClosed ==
    \A r \in Slots :
        /\ CaptchaCalls(req[r]) <= 1
        /\ env.ENABLE_TURNSTILE # "true" => CaptchaCalls(req[r]) = 0
        /\ (env.ENABLE_TURNSTILE = "true" /\ PastCaptcha(req[r])) =>
              /\ req[r].obs.captcha = "success"
              /\ Truthy(req[r].obs.token) /\ Truthy(env.TURNSTILE_SECRET)
        /\ (env.ENABLE_TURNSTILE = "true" /\ req[r].pc = "done"
              /\ "captcha" \in Labels(req[r].fx)
              /\ ~(req[r].obs.captcha = "success" /\ Truthy(req[r].obs.token)
                     /\ Truthy(env.TURNSTILE_SECRET)))
              => req[r].resp = jsonError("captcha_failed", 400)
        /\ (~Truthy(req[r].obs.token) \/ ~Truthy(env.TURNSTILE_SECRET))
              => CaptchaCalls(req[r]) = 0

\* a request was rejected because the answer of the endpoint could not be
\* parsed
C14_Witness ==
    \E r \in Slots :
        /\ req[r].pc = "done" /\ req[r].obs.captcha = "unparsable"
        /\ req[r].resp.error = "captcha_failed"

----------------------------------------------------------------------------
(* Claims about the functions called on their own (SpecCalls) *)

C16_EmptyOrStarMatchesAll ==
    fn.op = "matchOrigin" =>
        /\ fn.patterns = <<>> => fn.out
        /\ (\E i \in 1..Len(fn.patterns) : fn.patterns[i] = <<"*">>) => fn.out

\* the empty hostname against the empty list
C16_Witness == fn.op = "matchOrigin" /\ fn.host = <<>> /\ fn.patterns = <<>> /\ fn.out

\* s ends with suffix
EndsWith(s, suffix) ==
    Len(s) >= Len(suffix) /\ SubSeq(s, Len(s) - Len(suffix) + 1, Len(s)) = suffix

\* one or more labels joined by dots
IsLabels(s) ==
    /\ s # <<>> /\ s[1] # "." /\ s[Len(s)] # "."
    /\ \A i \in 1..(Len(s) - 1) : ~(s[i] = "." /\ s[i + 1] = ".")

\* C17: the pattern *.example.com matches every hostname made of one or more
\* labels followed by .example.com, without regard to case, and matches
\* neither example.com nor a hostname that ends in example.com without the
\* dot before it.
C17_WildcardSubdomains ==
    (fn.op = "matchOrigin" /\ Len(fn.patterns) = 1
        /\ ToLowerCase(fn.patterns[1]) = <<"*", ".">> \o ExampleCom) =>
        LET h   == ToLowerCase(fn.host)
            dot == <<".">> \o ExampleCom
        IN  /\ (EndsWith(h, dot) /\ IsLabels(SubSeq(h, 1, Len(h) - Len(dot)))) => fn.out
            /\ h = ExampleCom => ~fn.out
            /\ (EndsWith(h, ExampleCom) /\ ~EndsWith(h, dot)) => ~fn.out

\* a.b.EXAMPLE.COM is matched
C17_Witness ==
    /\ fn.op = "matchOrigin" /\ fn.patterns = <<StarDotExampleCom>>
    /\ fn.host = <<"a", ".", "b", ".">> \o UpperExampleCom /\ fn.out

\* C18: with the allow-list {*.example.com}, a request whose Origin header
\* is https://www.example.com passes the origin check of POST /send.
C18_WwwPassesWildcard ==
    (fn.op = "originCheck" /\ fn.allowedOrigins = <<StarDotExampleCom>>
        /\ fn.origin = OriginOf(WwwDot \o ExampleCom)) => fn.out

\* C19: a request that carries no Origin header, or one that does not
\* parse, is never admitted past the origin check, whatever the allow-list
\* is.
C19_OriginRequired ==
    (fn.op = "originCheck" /\ ~fn.origin.valid) => ~fn.out

\* C20: a request reaching the timing gate is rejected with too_fast when
\* fewer than 800 ms lie between its ts and the server's time (ts = now - 500)
\* and goes on to the next stage when 800 ms or more do (ts = now - 800,
\* ts = now - 1000).
C20_TimingGate800 ==
    (fn.op = "Validate" /\ "timing" \in Labels(fn.out.fx)) =>
        /\ fn.elapsed < 800 =>
              (fn.out.pc = "done" /\ fn.out.resp = jsonError("too_fast", 400))
        /\ fn.elapsed >= 800 =>
              (fn.out.resp.error # "too_fast" /\ "empty" \in Labels(fn.out.fx))

\* exactly 800 ms: the request goes on to the idempotency guard
C20_Witness ==
    /\ fn.op = "Validate" /\ fn.elapsed = 800 /\ fn.out.pc = "idem_get"

\* C21: a request reaching the payload check is rejected with empty_payload
\* if and only if message, handle and email are all empty after trimming and
\* normalization; a name alone does not make the payload acceptable, any one
\* of the three does.
C21_EmptyPayloadIff ==
    fn.op = "payloadCheck" =>
        /\ "empty" \in Labels(fn.out.fx)
        /\ (fn.out.resp = jsonError("empty_payload", 400))
              <=> (fn.message.empty /\ fn.telegram.empty /\ fn.email.empty)
        /\ ~(fn.message.empty /\ fn.telegram.empty /\ fn.email.empty)
              => (fn.out.pc = "idem_get" /\ fn.out.resp.status = 0)

\* a name and a handle that is only an @ are rejected
C21_Witness ==
    /\ fn.op = "payloadCheck" /\ ~fn.name.empty /\ fn.telegram.text = <<"@">>
    /\ fn.message.empty /\ fn.email.empty
    /\ fn.out.resp.error = "empty_payload"

----------------------------------------------------------------------------
(* More claims about the request pipeline (Spec) *)

\* how many outbound sends the request made
SendCalls(rq) == Cardinality({i \in 1..Len(rq.fx) : rq.fx[i] = "send"})

\* C22: a request that passes every gate and whose first send succeeds makes
\* exactly one outbound send and is answered 200 status ok with request_id
\* equal to its idempotency token; the token is the Idempotency-Key header
\* when one is supplied and the fingerprint of host, name, email, handle and
\* message otherwise, and is never empty.
C22_OneSendOkWithToken ==
    \A r \in Slots :
        /\ req[r].pc \in {"idem_put", "routing", "send"} =>
              /\ req[r].key \notin {"", Undefined}
              /\ req[r].key = IF req[r].obs.supplied # "" THEN req[r].obs.supplied
                              ELSE payloadHash(req[r].host, req[r].fields)
        /\ (req[r].pc = "done" /\ Labels(req[r].fx) \cap {"idem_get", "routing"} # {})
              => req[r].key \notin {"", Undefined}
        /\ "routing" \in Labels(req[r].fx) => "idem_get" \in Labels(req[r].fx)
        /\ req[r].obs.delivery.responses = <<RespOk>> =>
              /\ Len(req[r].obs.delivery.sends) = 1 /\ SendCalls(req[r]) = 1
              /\ req[r].pc = "done"
              /\ req[r].resp = [NoResp EXCEPT !.status = 200, !.st = "ok",
                                              !.request_id = req[r].key]

\* a request without the header was delivered at the first send
C22_Witness ==
    \E r \in Slots :
        /\ req[r].obs.delivery.responses = <<RespOk>> /\ req[r].obs.supplied = ""
        /\ req[r].resp.status = 200 /\ req[r].resp.request_id = req[r].key

----------------------------------------------------------------------------
(* Claims about the rendered message (SpecCalls) *)

\* the lines of a rendered message that carry the given label
LinesOf(lines, label) == {i \in 1..Len(lines) : lines[i] = label}

\* C23: in the rendered message the name, the email, the handle and the body
\* are escaped for &, < and >, the ampersand first so that no entity is
\* escaped twice (a body <script>& is rendered as &lt;script&gt;&amp;); the
\* handle line appears only when the handle is non-empty and the message
\* section only when the body is non-empty.
C23_EscapedAndConditional ==
    fn.op = "buildMessageText" =>
        LET handle == IF fn.telegram.text # <<>>
                        THEN <<"<b>Telegram:</b> https://t.me/" \o fn.telegram.escaped>>
                        ELSE <<>>
            body   == IF fn.message.text # <<>>
                        THEN <<"<b>Message:</b>", fn.message.escaped>> ELSE <<>>
            fixed  == << "<b>New Contact Request</b>",
                         "<b>Origin:</b> " \o (IF fn.host = <<>> THEN "-" ELSE "a.co"),
                         "<b>Name:</b> " \o (IF fn.name.text = <<>> THEN "-"
                                              ELSE fn.name.escaped),
                         "<b>Email:</b> " \o (IF fn.email.text = <<>> THEN "-"
                                               ELSE fn.email.escaped) >>
        IN  /\ fn.lines = fixed \o handle \o body
            /\ Len(fn.lines) = 4 + (IF fn.telegram.text # <<>> THEN 1 ELSE 0)
                                 + (IF fn.message.text # <<>> THEN 2 ELSE 0)
            /\ (LinesOf(fn.lines, "<b>Message:</b>") # {}) <=> (fn.message.text # <<>>)
            /\ fn.message.text = ScriptAmp =>
                  fn.lines[Len(fn.lines)] = "&lt;script&gt;&amp;"
            /\ fn.out = JoinLines(fn.lines)

\* the body <script>& was rendered, with a handle that holds an entity
C23_Witness ==
    /\ fn.op = "buildMessageText"
    /\ fn.message.text = ScriptAmp /\ fn.telegram.text = LtEntity
    /\ fn.name.text = <<>>
    /\ fn.out = "<b>New Contact Request</b>\n<b>Origin:</b> a.co\n<b>Name:</b> -"
                \o "\n<b>Email:</b> x\n<b>Telegram:</b> https://t.me/&amp;lt;"
                \o "\n<b>Message:</b>\n&lt;script&gt;&amp;"

----------------------------------------------------------------------------
(* More claims about the delivery service (SpecDelivery) *)

\* C24: after a failure-counted attempt with attempts remaining the delivery
\* sleeps 400 ms times the attempt index before the next attempt, so a
\* delivery in which all 3 attempts fail sleeps 400, 800 and 1200 ms.
C24_BackoffSleeps ==
    /\ \A i \in 1..Len(dv.responses) :
          (IsFailure(dv.responses[i]) /\ i < MAX_RETRIES) => \E j \in 1..Len(dv.sleeps) : dv.sleeps[j] = 400 * i
    /\ (DvDone /\ Len(dv.responses) = 3 /\ NumFailures(dv.responses) = 3)
          => dv.sleeps = <<400, 800, 1200>>

\* C25: when an upstream answer carries a migration signal, the next outbound
\* send of the delivery, if one is made, is addressed to the new identifier
\* and no backoff sleep is made in between; the error text of the migration
\* answer is not recorded as the last error.
C25_MigrationRetriesAtOnce ==
    [][ LET n == Len(dv'.responses)
        IN  (n = Len(dv.responses) + 1 /\ IsMigration(dv'.responses[n])) =>
               /\ dv'.sleeps = dv.sleeps
               /\ dv'.lastError = dv.lastError
               /\ dv'.lastError # dv'.responses[n].description
               /\ dv'.currentChatId = String(dv'.responses[n].migrate_to_chat_id)
               /\ \A i \in 1..(n - 1) :
                     IsMigration(dv'.responses[i]) =>
                        dv'.sends[i + 1] = String(dv'.responses[i].migrate_to_chat_id)
      ]_vars

\* a send was made to the identifier a migration signal named, after a failed
\* attempt and its sleep, with no further sleep
C25_Witness ==
    /\ Len(dv.responses) = 3
    /\ IsFailure(dv.responses[1]) /\ IsMigration(dv.responses[2])
    /\ dv.sends[3] = String(dv.responses[2].migrate_to_chat_id)
    /\ dv.sends[3] # dv.sends[2]
    /\ dv.sleeps = <<400>>

\* C26: whenever a delivery returns failure, its last upstream outcome was a
\* failure other than a migration signal and the returned error is the error
\* of that outcome; a failure is never returned with an empty or stale error
\* right after a migration signal.
C26_FailureCarriesLastError ==
    (DvDone /\ ~dv.result.success) =>
        LET last == dv.responses[Len(dv.responses)]
        IN  /\ IsFailure(last)
            /\ dv.result.error = AttemptError(last)
            /\ dv.result.error # ""

----------------------------------------------------------------------------
(* Claims about concurrent rate-limiter calls (SpecRace) *)

\* the entry of an identifier, as the claims name it
EntryKey(ip) == "rate:" \o ip

\* the timestamps stored under a key that a read at time t finds
StoredAt(kv, key, t) == IF KvLive(kv, key, t) THEN kv[key].val ELSE <<>>

\* call c takes its read step / its write step
ReadStep(c) == rl.calls[c].pc = "get" /\ rl'.calls[c].pc # "get"
WriteStep(c) == rl.calls[c].pc = "put" /\ rl'.calls[c].pc = "done"

\* the entry under key k is touched by the step
Touched(k) ==
    \/ (k \in DOMAIN rateKV) # (k \in DOMAIN rateKV')
    \/ k \in DOMAIN rateKV /\ k \in DOMAIN rateKV' /\ rateKV'[k] # rateKV[k]

\* the times at which the calls of an identifier started
StampsOf(calls, ip) == {calls[c].now : c \in {x \in RaceCalls : calls[x].ip = ip}}

\* C27: under every interleaving a rate-limiter call for identifier A reads
\* and writes the entry of A only, and the outcome of a call for B is decided
\* by the entry of B alone, which holds timestamps of calls for B only.
C27_IdentifiersIsolated ==
    [][ /\ \A c \in RaceCalls :
              LET before == rl.calls[c]
                  after  == rl'.calls[c]
              IN  /\ ReadStep(c) =>
                        /\ after.raw = StoredAt(rateKV, EntryKey(before.ip), now)
                        /\ after.limited =
                              (Cardinality({j \in 1..Len(after.raw) :
                                               after.raw[j] > before.now - 60000})
                                 >= rl.limit)
                  /\ WriteStep(c) =>
                        \A k \in DOMAIN rateKV \cup DOMAIN rateKV' :
                            Touched(k) => k = EntryKey(before.ip)
        /\ \A ip \in Ips :
              /\ Touched(EntryKey(ip)) =>
                    \E c \in RaceCalls : WriteStep(c) /\ rl.calls[c].ip = ip
              /\ EntryKey(ip) \in DOMAIN rateKV' =>
                    \A j \in 1..Len(rateKV'[EntryKey(ip)].val) :
                        rateKV'[EntryKey(ip)].val[j] \in StampsOf(rl'.calls, ip)
      ]_vars

\* two calls of different identifiers overlapped, both wrote, and a later
\* call of the first identifier was rejected on its own entry
C27_Witness ==
    \E a, b, c \in RaceCalls :
        /\ rl.calls[a].ip = "ip1" /\ rl.calls[b].ip = "ip2" /\ rl.calls[c].ip = "ip1"
        /\ rl.calls[a].pc = "done" /\ rl.calls[b].pc = "done" /\ rl.calls[c].pc = "done"
        /\ rl.calls[a].writeVer = 1 /\ rl.calls[b].writeVer = 1
        /\ rl.calls[a].now # rl.calls[b].now
        /\ rl.calls[c].limited

\* whether the timestamps hold the value x
Holds(timestamps, x) == \E j \in 1..Len(timestamps) : timestamps[j] = x

\* C28: when two calls of one identifier interleave their read and write
\* steps a lost update occurs: both are accepted, the later write stores what
\* its call read plus its own timestamp, and the timestamp the other call
\* wrote in between is gone from the stored entry (so more than
\* limitPerMinute calls can be accepted within one 60 s window).
C28_LostUpdate ==
    [][ \A c \in RaceCalls :
           WriteStep(c) =>
              LET call   == rl.calls[c]
                  stored == rateKV'[EntryKey(call.ip)].val
              IN  /\ ~call.limited
                  /\ stored = Append(call.pruned, call.now)
                  /\ \A o \in RaceCalls \ {c} :
                        LET other == rl.calls[o]
                        IN  ( /\ other.ip = call.ip /\ other.pc = "done"
                              /\ ~other.limited
                              /\ other.writeVer > call.readVer
                              /\ other.now # call.now
                              /\ ~Holds(call.raw, other.now) )
                            => ~Holds(stored, other.now)
      ]_vars

\* with a limit of 1, two calls of one identifier made at different times
\* within one window were both accepted, and the stored entry holds the
\* timestamp of the second writer only
C28_Witness ==
    \E a, b \in RaceCalls :
        /\ rl.limit = 1
        /\ rl.calls[a].ip = "ip1" /\ rl.calls[b].ip = "ip1"
        /\ rl.calls[a].pc = "done" /\ rl.calls[b].pc = "done"
        /\ ~rl.calls[a].limited /\ ~rl.calls[b].limited
        /\ rl.calls[a].now < rl.calls[b].now
        /\ rl.calls[b].now - rl.calls[a].now < 60000
        /\ rl.calls[a].writeVer = 1 /\ rl.calls[b].writeVer = 2
        /\ rl.calls[b].readVer = 0
        /\ KvLive(rateKV, EntryKey("ip1"), now)
        /\ rateKV[EntryKey("ip1")].val = <<rl.calls[b].now>>

\* the call has taken its read step
HasRead(call) == call.pc \in {"put", "done"} /\ call.ip # ""

\* every timestamp is strictly newer than t - 60,000
AllNewer(timestamps, t) == \A j \in 1..Len(timestamps) : timestamps[j] > t - 60000

\* C29 as stated: whenever a rate-limit entry is read from the store, every
\* timestamp it holds is within the last 60,000 ms; and every timestamp that
\* is counted against the limit or written back is strictly newer than
\* now - 60,000 ms.
C29_ReadEntryInWindow ==
    \A c \in RaceCalls :
        LET call == rl.calls[c]
        IN  HasRead(call) =>
               /\ \A j \in 1..Len(call.raw) : call.now - call.raw[j] <= 60000
               /\ AllNewer(call.pruned, call.now)
               /\ AllNewer(call.written, call.now)

\* C29 amended: an entry read from the store may hold timestamps older than
\* 60,000 ms; the timestamps counted against the limit are exactly those of
\* the entry read that are strictly newer than now - 60,000 ms, and every
\* timestamp written back is strictly newer than now - 60,000 ms.
C29_CountedAndWrittenInWindow ==
    \A c \in RaceCalls :
        LET call == rl.calls[c]
            kept == {j \in 1..Len(call.raw) : call.raw[j] > call.now - 60000}
        IN  HasRead(call) =>
               /\ AllNewer(call.pruned, call.now)
               /\ Len(call.pruned) = Cardinality(kept)
               /\ \A j \in kept : Holds(call.pruned, call.raw[j])
               /\ call.limited <=> (Cardinality(kept) >= rl.limit)
               /\ AllNewer(call.written, call.now)
               /\ (call.pc = "done" /\ ~call.limited) =>
                     call.written = Append(call.pruned, call.now)

\* a call read an entry holding a timestamp older than 60,000 ms, did not
\* count it, and wrote back its own timestamp only
C29_Witness ==
    \E c \in RaceCalls :
        LET call == rl.calls[c]
        IN  /\ call.pc = "done" /\ ~call.limited
            /\ \E j \in 1..Len(call.raw) : call.now - call.raw[j] > 60000
            /\ call.written = <<call.now>>

----------------------------------------------------------------------------
(* Claims about concurrent requests (SpecTwins) *)

\* request r takes the read step / the write step of the guard
GuardRead(r) == req[r].pc = "idem_get" /\ req'[r].pc # "idem_get"
GuardWrite(r) == req[r].pc = "idem_put" /\ req'[r].pc # "idem_put"

\* a marker of the token is in the store
MarkerStored(kv, key, t) == KvLive(kv, "idem:" \o key, t)

\* C30: when two requests with the same idempotency token interleave the read
\* and the write of the guard, both are judged not-duplicate: the read judges
\* by the marker stored at that moment alone, the write marks and goes on to
\* routing whether or not a marker was stored meanwhile, and routing goes on
\* to delivery, so both requests send an outbound message.
C30_TwinsBothPass ==
    [][ \A r \in Slots :
           /\ GuardRead(r) =>
                 LET marked == MarkerStored(idemKV, req'[r].key, now)
                 IN  /\ (req'[r].resp.duplicate = TRUE) <=> marked
                     /\ marked => req'[r].pc = "done"
                     /\ ~marked => (req'[r].pc = "idem_put" /\ req'[r].resp = NoResp)
           /\ GuardWrite(r) =>
                 /\ req'[r].pc = "routing" /\ req'[r].resp = NoResp
                 /\ MarkerStored(idemKV', req[r].key, now)
           /\ (req[r].pc = "routing" /\ req'[r].pc # "routing") =>
                 (req'[r].pc = "send" /\ Len(req'[r].d.sends) = 0)
           /\ (req[r].pc = "send" /\ req'[r].pc = "done"
                 /\ req'[r].obs.delivery.result.success) =>
                 req'[r].resp = OkResponse(req[r].key)
      ]_vars

\* two requests of one submission (same host and fields, no header) were
\* both delivered and both answered ok without the duplicate flag
C30_Witness ==
    \E r, q \in Slots :
        /\ req[r].id # req[q].id
        /\ req[r].pc = "done" /\ req[q].pc = "done"
        /\ req[r].key = req[q].key /\ req[r].key \notin {"", Undefined}
        /\ req[r].obs.supplied = "" /\ req[q].obs.supplied = ""
        /\ req[r].obs.delivery.pc = "done" /\ req[r].obs.delivery.result.success
        /\ req[q].obs.delivery.pc = "done" /\ req[q].obs.delivery.result.success
        /\ Len(req[r].obs.delivery.sends) >= 1 /\ Len(req[q].obs.delivery.sends) >= 1
        /\ req[r].resp = OkResponse(req[r].key) /\ req[q].resp = OkResponse(req[q].key)

----------------------------------------------------------------------------
(* Claims about concurrent idempotency calls (SpecGuard) *)

\* C31: under every interleaving of concurrent calls an idempotency record is
\* created once at the first sight of its token and never written again
\* while it exists: no later call with the same token rewrites the marker or
\* extends its expiry, so the record expires 300 s after its creation.
C31_MarkerWrittenOnce ==
    [][ \A c \in GuardCalls :
           (idm.calls[c].pc = "put" /\ idm'.calls[c].pc = "done") =>
              LET key == "idem:" \o idm.calls[c].token
              IN  /\ ~KvLive(idemKV, key, now)
                  /\ KvExpiry(idemKV', key) = now + 300000
      ]_vars

----------------------------------------------------------------------------
(* Claims about the allow-list, the middleware and the admin operations    *)
(* (SpecAdmin)                                                             *)

\* the elements of a sequence
Elems(items) == {items[i] : i \in 1..Len(items)}

\* C32: the allow-list an admission is checked against is read from the
\* store during that admission: it is the union of the dynamic and the static
\* patterns when the dynamic list is non-empty and the static patterns alone
\* otherwise, also when the read or its parsing fails; the dynamic list is
\* the one of the latest change completed before the request.
C32_AllowListReadFresh ==
    [][ fn'.op = "sendHandler" =>
           LET static  == Elems(env.ALLOWED_ORIGINS)
               dynamic == Elems(pl.dynamic)
               expect  == IF fn'.rq.readFails \/ dynamic = {} THEN static
                          ELSE dynamic \cup static
           IN  /\ Elems(fn'.allowed) = expect
               /\ Len(fn'.allowed) = Cardinality(expect)
               /\ (fn'.resp.status = 403) <=>
                     ~matchOrigin(normalizeHost(fn'.rq.origin), fn'.allowed)
      ]_vars

\* an admission was checked against the list a replacement had just stored,
\* joined with the static pattern
C32_Witness ==
    /\ fn.op = "sendHandler" /\ ~fn.rq.readFails
    /\ pl.dynamic = <<ACo, Star>>
    /\ fn.allowed = <<ACo, Star, BCo>>

\* the write of request `id` is handed to waitUntil in this step
Issued == pending' \ pending

\* the 200 answer of a delivered submission with token `key`
DeliveredAnswer(key) == [NoResp EXCEPT !.status = 200, !.st = "ok", !.request_id = key]

\* the store has no live migration entry for chat c
NotCached(c) == ~KvLive(configKV, "migrated_chat:" \o c, now)

\* C33: a migration-cache write is issued only in the step that ends a
\* delivery with success after at least one migration signal, keyed by the
\* identifier of the delivery's first send and carrying the identifier of its
\* last, accepted send, and it lands under that key with that value; the
\* request is answered 200 ok in that same step and no landing or failing of
\* a write changes any response; a request that resolves its routing while
\* the write for its chat is pending and no entry is stored starts at the old
\* identifier, follows the redirect and, when the new identifier accepts the
\* message, is answered 200 ok with the message delivered.
C33_CacheWriteAfterSuccess ==
    [][ /\ \A w \in Issued :
              \E r \in Slots :
                 LET d == req'[r].obs.delivery
                 IN  /\ req[r].pc = "send" /\ req'[r].pc = "done" /\ req'[r].id = w.id
                     /\ d.pc = "done" /\ d.result.success
                     /\ NumMigrations(d.responses) >= 1
                     /\ ~IsMigration(d.responses[Len(d.responses)])
                     /\ ~IsFailure(d.responses[Len(d.responses)])
                     /\ w.key = d.sends[1]
                     /\ w.val = d.sends[Len(d.sends)]
                     /\ w.val # w.key
                     /\ req'[r].resp = DeliveredAnswer(req[r].key)
                     /\ configKV' = configKV
        /\ \A r \in Slots :
              (req[r].pc = "send" /\ req'[r].pc = "done" /\ req'[r].obs.delivery.result.success)
                 => req'[r].resp = DeliveredAnswer(req[r].key)
        /\ \A w \in pending \ pending' :
              /\ req' = req
              /\ configKV' # configKV =>
                    /\ KvLive(configKV', "migrated_chat:" \o w.key, now)
                    /\ configKV'["migrated_chat:" \o w.key].val = w.val
        /\ \A r \in Slots :
              (/\ req[r].pc = "routing" /\ req'[r].pc = "send"
               /\ \E w \in pending : w.key = req'[r].configured
               /\ NotCached(req'[r].configured))
                 => /\ req'[r].d.currentChatId = req'[r].configured
                    /\ tg.migrated[req'[r].configured] # 0
        /\ \A r \in Slots :
              LET d == req'[r].obs.delivery
              IN  (/\ req'[r].pc = "done" /\ d.pc = "done" /\ Len(d.responses) >= 2
                   /\ IsMigration(d.responses[1])
                   /\ d.responses[2] = RespOk)
                     => /\ d.sends[2] = String(d.responses[1].migrate_to_chat_id)
                        /\ req'[r].resp.status = 200 /\ req'[r].resp.st = "ok"
                        /\ \E msg \in tg'.delivered : msg.key = req'[r].key
      ]_vars

\* a later request was delivered through the redirect while the write of an
\* earlier request for the same chat had not landed
C33_Witness ==
    \E r \in Slots : \E w \in pending :
        LET d == req[r].obs.delivery
        IN  /\ req[r].pc = "done" /\ req[r].id > w.id
            /\ d.pc = "done" /\ d.result.success
            /\ IsMigration(d.responses[1])
            /\ d.sends[1] = w.key /\ d.sends[Len(d.sends)] = w.val
            /\ req[r].resp = DeliveredAnswer(req[r].key)
            /\ NotCached(w.key)

\* the upstream accepted the message in answer i of the delivery
Accepted(i) == ~dv.responses[i].thrown /\ dv.responses[i].ok

ProbeHosts == {<<>>, ACo, BCo, <<"x", ".", "a", ".", "c", "o">>}

\* a DELETE /admin/origins/:pattern took a pattern out of the stored list
Removed == fn'.op = "removeOrigin" /\ fn'.resp.st = "ok" /\ configKV' # configKV

\* the allow-list of the origin check before and after the step
ListBefore == getAllowedOrigins(configKV, env.ALLOWED_ORIGINS, now)
ListAfter  == getAllowedOrigins(configKV', env.ALLOWED_ORIGINS, now)

\* C35 as stated: a removal never makes the origin check accept a hostname
\* it rejected before, the removal of the last pattern included.
C35_RemovalNeverWidens ==
    [][ Removed =>
           \A h \in ProbeHosts :
              matchOrigin(h, ListAfter) => matchOrigin(h, ListBefore)
      ]_vars

\* C35, amended: a removal that leaves a pattern in the union of the dynamic
\* and the static list never makes the origin check accept a hostname it
\* rejected before; the union is left empty only when the last dynamic
\* pattern is removed and no static pattern is configured, and the origin
\* check then accepts every hostname.
C35_RemovalNarrowsUnlessEmptied ==
    [][ Removed =>
           /\ ListAfter # <<>> =>
                 \A h \in ProbeHosts :
                    matchOrigin(h, ListAfter) => matchOrigin(h, ListBefore)
           /\ ListAfter = <<>> =>
                 /\ fn'.resp.origins = <<>>
                 /\ Elems(env.ALLOWED_ORIGINS) = {}
                 /\ \A h \in ProbeHosts : matchOrigin(h, ListAfter)
           /\ (fn'.resp.origins = <<>> /\ Elems(env.ALLOWED_ORIGINS) = {})
                 => ListAfter = <<>>
      ]_vars

\* the last pattern was removed with no static pattern configured: b.co,
\* which the list a.co rejected, is accepted
C35_Witness ==
    /\ fn.op = "removeOrigin" /\ fn.resp.st = "ok"
    /\ fn.rq.pattern = ACo /\ fn.resp.origins = <<>>
    /\ env.ALLOWED_ORIGINS = <<>>
    /\ getAllowedOrigins(configKV, env.ALLOWED_ORIGINS, now) = <<>>
    /\ matchOrigin(BCo, getAllowedOrigins(configKV, env.ALLOWED_ORIGINS, now))
    /\ ~matchOrigin(BCo, <<ACo>>)

\* the positions of a stage or call in what a request did
Positions(fx, what) == {i \in 1..Len(fx) : fx[i] = what}

\* C36: a request rejected at the origin check makes no rate-limit call and
\* a rate-limited one writes nothing; every other request, whatever it is
\* answered later, writes its client's entry exactly once, before the body
\* is parsed, and that write stores the pruned entry with the time of the
\* request appended; no other step of a request changes the rate-limit
\* store.
C36_PassingRequestRecordsOnce ==
    [][ \A r \in Slots :
           LET fx   == req'[r].fx
               puts == Positions(fx, "rate_put")
           IN  /\ (req[r].pc = "rate_put" /\ req'[r] # req[r]) =>
                     LET key == "rate:" \o req[r].ip
                     IN  /\ req'[r].pc = "parse"
                         /\ KvLive(rateKV', key, now)
                         /\ Len(rateKV'[key].val) = Len(req[r].rlPruned) + 1
                         /\ rateKV'[key].val[Len(rateKV'[key].val)] = req[r].rlNow
                         /\ \A i \in 1..Len(req[r].rlPruned) :
                               rateKV'[key].val[i] = req[r].rlPruned[i]
                         /\ \A k \in DOMAIN rateKV : k # key => rateKV'[k] = rateKV[k]
               /\ (req[r].pc # "rate_put" /\ req'[r] # req[r]) => rateKV' = rateKV
               /\ Positions(fx, "parse") # {} =>
                     /\ Cardinality(puts) = 1
                     /\ \A i \in puts : \A j \in Positions(fx, "parse") : i < j
               /\ req'[r].pc = "done" =>
                     /\ req'[r].resp.error = "origin_not_allowed" => fx = <<"origin">>
                     /\ req'[r].resp.error = "rate_limited" =>
                           fx = <<"origin", "rate_get">>
                     /\ req'[r].resp.error \notin {"origin_not_allowed", "rate_limited"} =>
                           /\ Cardinality(puts) = 1
                           /\ Positions(fx, "parse") # {}
      ]_vars

\* a request whose delivery failed has recorded its timestamp
C36_Witness ==
    \E r \in Slots :
        /\ req[r].pc = "done" /\ req[r].resp.error = "telegram_send_failed"
        /\ Cardinality(Positions(req[r].fx, "rate_put")) = 1
        /\ \E ip \in Ips \cup {"unknown"} :
              /\ KvLive(rateKV, "rate:" \o ip, now)
              /\ Len(rateKV["rate:" \o ip].val) >= 1

\* C37: a request whose ts is absent, zero, negative or spells no number is
\* never answered too_fast; one whose ts parses to a positive integer and
\* that is no honeypot hit is answered too_fast exactly when fewer than 800 ms
\* separate that integer from the time of the check.
C37_GateOnlyForPositiveTs ==
    fn.op = "TimingGate" =>
        /\ fn.ts.kind \in {"absent", "zero", "negative", "nan"} =>
              /\ fn.out.resp.error # "too_fast"
              /\ fn.data.website = <<>> => "empty" \in Labels(fn.out.fx)
        /\ (fn.ts.kind = "positive" /\ fn.data.website = <<>>) =>
              ((fn.out.resp.error = "too_fast") <=> (now - fn.ts.val < 800))
        /\ fn.out.resp.error = "too_fast" =>
              (fn.out.pc = "done" /\ fn.out.resp.status = 400 /\ fn.ts.val > 0)

\* a negative ts whose magnitude is 100 ms before the check went on to the
\* payload check and further
C37_Witness ==
    /\ fn.op = "TimingGate" /\ fn.ts.kind = "negative" /\ fn.ts.val = 100 - now
    /\ fn.data.message = <<"h", "i">>
    /\ "timing" \in Labels(fn.out.fx) /\ "empty" \in Labels(fn.out.fx)
    /\ fn.out.resp.error # "too_fast" /\ fn.out.resp.error # "empty_payload"

\* some pattern of the set matches the hostname, or the set is empty
MatchesSet(host, patterns) ==
    patterns = {} \/ \E p \in patterns : matchPattern(host, p)

\* the allow-list in force when a request arrives: the patterns of the latest
\* completed change with the static ones, the static ones alone when there
\* are no dynamic ones
ListInForce ==
    IF Elems(pl.dynamic) = {} THEN Elems(env.ALLOWED_ORIGINS)
    ELSE Elems(pl.dynamic) \cup Elems(env.ALLOWED_ORIGINS)

\* C38: for every request to every route, Access-Control-Allow-Origin is set
\* exactly when the Origin header is non-empty and its normalized hostname
\* matches the allow-list in force on arrival, and it is then the Origin
\* header itself; an OPTIONS request is answered 204 with no route handler
\* run, no store read by a handler and no store changed, and every other
\* request reaches a route handler or the not-found handler.
C38_CorsBeforeEveryRoute ==
    [][ pl'.n = pl.n + 1 =>
           LET rq == fn'.rq
           IN  /\ fn'.allowOrigin.set <=>
                     /\ rq.origin # NoOrigin
                     /\ MatchesSet(normalizeHost(rq.origin), ListInForce)
               /\ fn'.allowOrigin.set => fn'.allowOrigin.value = rq.origin
               /\ rq.method = "OPTIONS" =>
                     /\ fn'.op = "none" /\ fn'.resp.status = 204
                     /\ fn'.reads = 0
                     /\ configKV' = configKV /\ rateKV' = rateKV /\ idemKV' = idemKV
               /\ rq.method # "OPTIONS" =>
                     /\ fn'.op \in {"sendHandler", "healthHandler", "listOrigins",
                                    "replaceOrigins", "addOrigin", "removeOrigin",
                                    "notFound"}
                     /\ fn'.resp.status # 204
      ]_vars

\* a preflight for the admin route from an origin outside the list a.co was
\* answered 204 without the header, the admin key it carried notwithstanding
C38_Witness ==
    /\ pl.n > 0
    /\ fn.op = "none" /\ fn.rq.method = "OPTIONS" /\ fn.rq.path = "/admin/origins"
    /\ fn.resp.status = 204
    /\ fn.rq.origin = OriginOf(WwwDot \o BCo) /\ ~fn.allowOrigin.set
    /\ pl.dynamic = <<ACo>> /\ env.ALLOWED_ORIGINS = <<>>

\* the handlers of the admin routes
AdminOps == {"listOrigins", "replaceOrigins", "addOrigin", "removeOrigin"}

\* an ADMIN_KEY is configured
KeyConfigured == env.ADMIN_KEY # Undefined /\ env.ADMIN_KEY # ""

\* C39: an admin operation of a deployment without ADMIN_KEY is answered 503
\* admin_not_configured, and one whose X-Admin-Key is missing, empty or
\* different from ADMIN_KEY is answered 401 unauthorized; in both cases the
\* handler reads no store and the stored allow-list is unchanged.  A request
\* that carries the configured key is answered neither 401 nor 503, and only
\* such a request changes the store.
C39_AdminNeedsKey ==
    [][ (pl'.n = pl.n + 1 /\ fn'.op \in AdminOps) =>
           LET refused == [status |-> fn'.resp.status, error |-> fn'.resp.error]
           IN  /\ ~KeyConfigured =>
                     /\ refused = [status |-> 503, error |-> "admin_not_configured"]
                     /\ fn'.resp.st = "error" /\ fn'.resp.origins = Undefined
                     /\ fn'.reads = 0 /\ configKV' = configKV
               /\ (KeyConfigured /\ fn'.rq.key # env.ADMIN_KEY) =>
                     /\ refused = [status |-> 401, error |-> "unauthorized"]
                     /\ fn'.resp.st = "error" /\ fn'.resp.origins = Undefined
                     /\ fn'.reads = 0 /\ configKV' = configKV
               /\ (KeyConfigured /\ fn'.rq.key = env.ADMIN_KEY) =>
                     fn'.resp.status \notin {401, 503}
               /\ configKV' # configKV =>
                     (KeyConfigured /\ fn'.rq.key = env.ADMIN_KEY)
      ]_vars

\* a removal of a stored pattern with a wrong key was answered 401 and the
\* pattern is still stored
C39_Witness ==
    /\ pl.n > 0 /\ fn.op = "removeOrigin"
    /\ env.ADMIN_KEY = "secret" /\ fn.rq.key = "wrong" /\ fn.rq.pattern = ACo
    /\ fn.resp.status = 401 /\ fn.resp.error = "unauthorized"
    /\ pl.dynamic = <<ACo>>
    /\ KvLive(configKV, "allowed_origins", now)
    /\ configKV["allowed_origins"].val.patterns = <<ACo>>

============================================================================
